---- MODULE Spec2Model ----
(***************************************************************************)
(* A model of the reactive core of resig.js: the signal container          *)
(* (core/signal.ts), the Effect monad built on it (core/effect.ts) and the *)
(* time algebra (algebras/time.ts).                                        *)
(*                                                                         *)
(* Containers live in a heap: a sequence of cells, each with the closure   *)
(* variable `current` (val) and the insertion-ordered subscriber Set       *)
(* (subs).  A subscriber is a closure; it is represented by a record that  *)
(* names the code of the closure (kind) and its captured variables.        *)
(* _set runs its whole notification chain synchronously and depth first,   *)
(* so it is a recursive operator from a world to a world.                  *)
(***************************************************************************)
EXTENDS Integers, Sequences, FiniteSets, TLC

\* ------------------------------------------------------------------ bounds
MaxVal == 2
MaxOps == 3
NumObs == 2
NumRefs == 2
MaxTime == 5
DebounceMs == 2

Values == 0..MaxVal
Modulus == MaxVal + 1
\* object references, apart from the primitive values
ObjRefs == (MaxVal + 1)..(MaxVal + NumRefs)
NoObjs == [r \in ObjRefs |-> 0]
Obs == 1..NumObs
NoValue == -1

\* heap: the containers; obs: the observers (counting subscribers);
\* tm: the clock, the pending platform timers and the closure variables of
\* the time operators; objs: the fields of the objects used as values;
\* sc: the names of the containers of the scene and, with last, history
\* of what was done; ops: the number of top-level calls made.
VARIABLES heap, obs, tm, objs, sc, last, ops
vars == <<heap, obs, tm, objs, sc, last, ops>>

\* ------------------------------------------------- user-supplied functions
\* The pure functions handed to map: identity (signal.ts id), x + 1 and
\* x * 2 as in the tests, a constant function and a non-injective halving,
\* all on the bounded value range.
FnNames == {"id", "inc", "dbl", "zero", "half"}

ApplyFn(fn, x) ==
  CASE fn = "id" -> x
    [] fn = "inc" -> (x + 1) % Modulus
    [] fn = "dbl" -> (x * 2) % Modulus
    [] fn = "zero" -> 0
    [] fn = "half" -> x \div 2

\* compose(f, g) = a => f(g(a)); a composite is the list of the functions
\* in application order.
RECURSIVE ApplySeq(_, _)
ApplySeq(fs, x) ==
  IF fs = <<>> THEN x ELSE ApplySeq(Tail(fs), ApplyFn(Head(fs), x))

composeSwapped(f, g) == f \o g
compose(f, g) == g \o f

\* ------------------------------------------------------------ subscribers
\* kind names the closure's code, the other fields are what it captured.
\* target: the container it writes to; k: the observer or the closure
\* variable it owns; fs, ef, ms: the function or delay it was given.
NoEf == [kind |-> "none"]
Closure(kind) ==
  [kind |-> kind, fs |-> <<>>, target |-> 0, k |-> 0, ef |-> NoEf, ms |-> 0]
MapSub(fs, target) == [Closure("map") EXCEPT !.fs = fs, !.target = target]
BindSub(ef, target) == [Closure("bind") EXCEPT !.ef = ef, !.target = target]
FwdSub(target) == [Closure("fwd") EXCEPT !.target = target]
ObsSub(k) == [Closure("obs") EXCEPT !.k = k]
DebounceSub(ms, target, k) ==
  [Closure("debounce") EXCEPT !.ms = ms, !.target = target, !.k = k]
\* val => [...arr, val] as a map subscriber: fs holds the captured arr
SnocSub(arr, target) == [Closure("snoc") EXCEPT !.fs = arr, !.target = target]
\* the subscriber timeout registers on the source: k is the cell of
\* hasCompleted, ms holds the captured timeoutId
TimeoutSub(target, k, timeoutId) ==
  [Closure("timeout") EXCEPT !.target = target, !.k = k, !.ms = timeoutId]
\* the subscriber cache registers on the Fetch it was called on
CacheSub(target) == [Closure("cache") EXCEPT !.target = target]
\* the subscriber fetch registers on a dependency
DepSub(target) == [Closure("dep") EXCEPT !.target = target]
\* the notify closure combine registers on both machines: fs holds the
\* two machines, target the combined machine's subscriber Set
CombineSub(machine1, machine2, target) ==
  [Closure("combine") EXCEPT !.fs = <<machine1, machine2>>, !.target = target]
\* the map subscriber of filterPlugin: fs names the predicate, k is the
\* signal the plugin was applied to
FilterSub(pred, source, target) ==
  [Closure("filter") EXCEPT !.fs = pred, !.k = source, !.target = target]
\* the subscriber cachePlugin (fs = "cache") or persistPlugin (fs =
\* "persist") registers to write every value to the store
StoreSub(plugin) == [Closure("store") EXCEPT !.fs = plugin]
\* the map subscriber of signal.map(() => v): k holds the captured v
ConstSub(v, target) == [Closure("const") EXCEPT !.k = v, !.target = target]
\* the subscriber throttle registers on the source: k is the cell of
\* lastExecution
ThrottleSub(ms, target, k) ==
  [Closure("throttle") EXCEPT !.ms = ms, !.target = target, !.k = k]
\* the subscriber delay registers on the source
DelaySub(ms, target) == [Closure("delay") EXCEPT !.ms = ms, !.target = target]
\* a subscriber that sets the container it is subscribed to:
\* v => c._set(fn(v))
ResetSub(fn, target) == [Closure("reset") EXCEPT !.fs = <<fn>>, !.target = target]
\* a subscriber that counts like ObsSub(k) and compares what it is handed
\* with c.value(): ms is the cell of its flag (1 once they differed)
ProbeSub(k, target, cell) ==
  [Closure("probe") EXCEPT !.k = k, !.target = target, !.ms = cell]
Gone == Closure("gone")

\* --------------------------------------- functions that return an Effect
\* x => effect(fn(x)): a new Effect on every call (as in the tests);
\* pureEffect is the case fn = id.
Fresh(fn) == [kind |-> "fresh", fn |-> fn, tbl |-> <<>>]
pureEffect == Fresh("id")
\* x => tbl[x]: a function that returns an Effect that exists already (as
\* flatten's inner => inner does), the same one for the same argument.
Shared(tbl) == [kind |-> "shared", fn |-> "id", tbl |-> tbl]
\* a => f(a).bind(g), the right-hand side of the associativity law
Then(f, g) == [kind |-> "then", fn |-> "id", tbl |-> <<>>, inner |-> f, g |-> g]
\* arr => curr.map(val => [...arr, val]), the function sequence binds
SeqStep(curr) == [kind |-> "seqstep", fn |-> "id", tbl |-> <<>>, curr |-> curr]

\* f => effectA.map(f), the function apply binds
MapOver(effectA) ==
  [kind |-> "mapover", fn |-> "id", tbl |-> <<>>, effectA |-> effectA]

\* [...arr, val]
snocFront(arr, val) == <<val>> \o arr
snoc(arr, val) == Append(arr, val)

\* ---------------------------------------------------------------- signal
\* signal(initial): a fresh cell with no subscribers.
signal(W, initial) ==
  [w |-> [W EXCEPT !.heap = Append(@, [val |-> initial, subs |-> <<>>])],
   id |-> Len(W.heap) + 1]

value(W, id) == W.heap[id].val

\* subscribe(fn): subscribers.add(fn)
subscribeFirst(W, id, s) == [W EXCEPT !.heap[id].subs = <<s>> \o @]
subscribe(W, id, s) == [W EXCEPT !.heap[id].subs = Append(@, s)]

\* the closure returned by subscribe: subscribers.delete(fn)
unsubscribeNothing(W, id, s) == W
unsubscribe(W, id, s) ==
  [W EXCEPT !.heap[id].subs =
     [i \in DOMAIN @ |-> IF @[i] = s THEN Gone ELSE @[i]]]

\* the guard of _set: value !== current
ChangedAlways(v, current) == TRUE
Changed(v, current) == v /= current

\* what the map subscriber pushes into the derived signal: f(newValue)
MapPushStale(fs, newValue, derivedVal) == derivedVal
MapPush(fs, newValue, derivedVal) == ApplySeq(fs, newValue)

\* effect(initial) wraps signal(initial) and delegates value, map,
\* subscribe and _set to it: it is the same cell.
effect(W, initial) == signal(W, initial)

\* what the bind subscriber writes into the result: newEffect.value()
BindWriteNothing(innerVal, resultVal) == resultVal
BindWrite(innerVal, resultVal) == innerVal

\* the closure the bind subscriber registers on the new inner Effect
InnerSubNone(target) == Gone
InnerSub(target) == FwdSub(target)

\* ---------------------------------------------------- platform timers
\* setTimeout(cb, ms): a new pending timer, due ms after now; its handle
\* is W.tm.next - 1 afterwards.  cb is a record naming the callback.
setTimeoutReplacing(W, cb, ms) ==
  [W EXCEPT !.tm.pend = {[id |-> W.tm.next, due |-> W.tm.now + ms, cb |-> cb]},
            !.tm.next = @ + 1]
setTimeout(W, cb, ms) ==
  [W EXCEPT !.tm.pend = @ \cup {[id |-> W.tm.next, due |-> W.tm.now + ms,
                                  cb |-> cb]},
            !.tm.next = @ + 1]

\* clearTimeout(id); clearTimeout(undefined) does nothing (no timer has
\* the handle 0)
clearTimeoutNothing(pend, id) == pend
clearTimeout(pend, id) == {t \in pend : t.id /= id}

\* !hasCompleted, for the cell of the closure variable (0 false, 1 true)
notCompletedIgnored(hasCompleted) == TRUE
notCompleted(hasCompleted) == hasCompleted = 0

\* the callback () => x._set(v)
PushCb(target, v) == [kind |-> "push", target |-> target, v |-> v]
\* the callback () => delayed._set(baseEffect.value())
PushCurrentCb(target, base) ==
  [kind |-> "pushcurrent", target |-> target, base |-> base]

\* the number of observer calls made so far (an observer records, in at,
\* the position of its latest call among all of them)
RECURSIVE CallsUpTo(_, _)
CallsUpTo(o, k) == IF k = 0 THEN 0 ELSE o[k].n + CallsUpTo(o, k - 1)
Clock(o) == CallsUpTo(o, NumObs)

\* the predicates handed to filterPlugin, as in the examples
PredNames == {"positive", "even", "never", "always"}
predicate(pred, v) ==
  CASE pred = "positive" -> v > 0
    [] pred = "even" -> v % 2 = 0
    [] pred = "never" -> FALSE
    [] pred = "always" -> TRUE

\* value => predicate(value) ? value : signal.value(), with what
\* signal.value() returns at the time of the call
filterFn(pred, v, signalValue) == IF predicate(pred, v) THEN v ELSE signalValue

\* Date.now(): the clock of the timers, counted from an epoch that lies
\* further back than any delay in use
Epoch == 2 * (MaxTime + 1)
DateNow(W) == Epoch + W.tm.now

\* the gate of throttle: now - lastExecution >= ms
elapsedAlways(now, lastExecution, ms) == TRUE
elapsed(now, lastExecution, ms) == now - lastExecution >= ms

\* map(f): derived = signal(f(current)); subscribe the pushing closure
mapUnsubscribed(W, id, fs) == signal(W, ApplySeq(fs, W.heap[id].val))
map(W, id, fs) ==
  LET d == signal(W, ApplySeq(fs, W.heap[id].val))
  IN [w |-> subscribe(d.w, id, MapSub(fs, d.id)), id |-> d.id]

RECURSIVE executeFetch(_, _), cacheMirror(_, _, _), storeWrite(_, _, _)
RECURSIVE set(_, _, _), notify(_, _, _), CallSub(_, _, _), CallEff(_, _, _),
          bind(_, _, _)

\* the bind subscriber once newEffect = f(newValue) is made:
\* resultEffect._set(newEffect.value()); newEffect.subscribe(...)
bindSub(newEffect, target) ==
  subscribe(set(newEffect.w, target,
                BindWrite(newEffect.w.heap[newEffect.id].val,
                          newEffect.w.heap[target].val)),
            newEffect.id, InnerSub(target))

\* e.bind(g) for the Effect e that a call returned
bindOf(e, g) == bind(e.w, e.id, g)

\* bind once first = f(value()) is made: resultEffect and the subscription
\* of the bind closure on the Effect id
bindSubscribe(resultEffect, id, ef) ==
  [w |-> subscribe(resultEffect.w, id, BindSub(ef, resultEffect.id)),
   id |-> resultEffect.id]
bindResult(first, id, ef) ==
  bindSubscribe(effect(first.w, first.w.heap[first.id].val), id, ef)

\* _set(value)
set(W, id, v) ==
  IF Changed(v, W.heap[id].val)
  THEN notify([W EXCEPT !.heap[id].val = v], id, 1)
  ELSE W

\* a round that hands every subscriber the value held when it started
notifySnapshot(W, id, i) ==
  LET v == W.heap[id].val
      n == Len(W.heap[id].subs)
      round[j \in (i - 1)..n] ==
        IF j < i THEN W ELSE CallSub(round[j - 1], W.heap[id].subs[j], v)
  IN round[n]

\* notify(): subscribers.forEach(fn => fn(current)), from the i-th entry on.
\* forEach visits the entries in insertion order, reads `current` at each
\* call and also visits entries added while it runs.
notify(W, id, i) ==
  IF i > Len(W.heap[id].subs) THEN W
  ELSE notify(CallSub(W, W.heap[id].subs[i], W.heap[id].val), id, i + 1)

\* one subscriber closure called with the value a
CallSub(W, s, a) ==
  CASE s.kind = "map" ->
         set(W, s.target, MapPush(s.fs, a, W.heap[s.target].val))
    [] s.kind = "bind" -> bindSub(CallEff(W, s.ef, a), s.target)
    [] s.kind = "fwd" -> set(W, s.target, a)
    [] s.kind = "debounce" ->
         LET W1 == [W EXCEPT !.tm.pend = clearTimeout(@, W.tm.cell[s.k])]
             W2 == setTimeout(W1, PushCb(s.target, a), s.ms)
         IN [W2 EXCEPT !.tm.cell[s.k] = W2.tm.next - 1]
    [] s.kind = "snoc" ->
         \* derived._set(a new array): never identical to the current one
         notify([W EXCEPT !.heap[s.target].val = snoc(s.fs, a)], s.target, 1)
    [] s.kind = "timeout" ->
         IF notCompleted(W.tm.cell[s.k])
         THEN LET W1 == [W EXCEPT !.tm.cell[s.k] = 1,
                                  !.tm.pend = clearTimeout(@, s.ms)]
              IN set(W1, s.target, a)
         ELSE W
    [] s.kind = "dep" -> executeFetch(W, s.target)
    [] s.kind = "cache" -> cacheMirror(W, s.target, a)
    [] s.kind = "delay" -> setTimeout(W, PushCb(s.target, a), s.ms)
    [] s.kind = "throttle" ->
         IF elapsed(DateNow(W), W.tm.cell[s.k], s.ms)
         THEN [set(W, s.target, a) EXCEPT !.tm.cell[s.k] = DateNow(W)]
         ELSE W
    [] s.kind = "store" -> storeWrite(W, s.fs, a)
    [] s.kind = "reset" -> set(W, s.target, ApplySeq(s.fs, a))
    [] s.kind = "probe" ->
         [W EXCEPT !.obs[s.k] = [@ EXCEPT !.n = @ + 1, !.got = a,
                                           !.at = Clock(W.obs) + 1],
                   !.tm.cell[s.ms] =
                     IF a = W.heap[s.target].val THEN @ ELSE 1]
    [] s.kind = "const" -> set(W, s.target, s.k)
    [] s.kind = "filter" ->
         \* derived._set(f(newValue)), f reading signal.value() now
         set(W, s.target, filterFn(s.fs, a, W.heap[s.k].val))
    [] s.kind = "combine" ->
         \* subscribers.forEach(fn => fn({m1: ..., m2: ...})): the cell of
         \* the combined machine holds the object being handed out
         notify([W EXCEPT !.heap[s.target].val =
                   [m1 |-> W.heap[s.fs[1]].val, m2 |-> W.heap[s.fs[2]].val]],
                s.target, 1)
    [] s.kind = "obs" ->
         [W EXCEPT !.obs[s.k] = [@ EXCEPT !.n = @ + 1, !.got = a,
                                           !.at = Clock(W.obs) + 1]]
    [] OTHER -> W

\* a call f(a) of an Effect-returning function
CallEff(W, ef, a) ==
  CASE ef.kind = "fresh" -> effect(W, ApplyFn(ef.fn, a))
    [] ef.kind = "shared" -> [w |-> W, id |-> ef.tbl[a + 1]]
    [] ef.kind = "then" -> bindOf(CallEff(W, ef.inner, a), ef.g)
    [] ef.kind = "mapover" -> map(W, ef.effectA, <<a>>)
    [] ef.kind = "seqstep" ->
         LET d == signal(W, snoc(a, W.heap[ef.curr].val))
         IN [w |-> subscribe(d.w, ef.curr, SnocSub(a, d.id)), id |-> d.id]

\* bind(f): resultEffect = effect(f(value()).value()); subscribe the closure
bind(W, id, ef) == bindResult(CallEff(W, ef, W.heap[id].val), id, ef)

\* time(initial) wraps effect(initial) in the same way.
time(W, initial) == effect(W, initial)

\* debounce(ms, effect): debounced = time(effect.value()), a closure
\* variable timeoutId (undefined) and the subscriber that restarts the timer
debounce(W, ms, id) ==
  LET debounced == time(W, W.heap[id].val)
      W1 == [debounced.w EXCEPT !.tm.cell = Append(@, 0)]
  IN [w |-> subscribe(W1, id,
                      DebounceSub(ms, debounced.id, Len(W1.tm.cell))),
      id |-> debounced.id]

\* ------------------------------------------------------------ the worlds
\* localStorage for the one key in use: the item and its time stamp are
\* absent (has = FALSE) or present; broken: getItem and setItem throw
NoEntry == [has |-> FALSE, data |-> NoValue, time |-> 0, broken |-> FALSE]

World == [heap |-> heap, obs |-> obs, tm |-> tm]
Commit(W) == heap' = W.heap /\ obs' = W.obs /\ tm' = W.tm

EmptyWorld ==
  [heap |-> <<>>,
   obs |-> [k \in Obs |-> [n |-> 0, got |-> NoValue, on |-> 0, at |-> 0]],
   tm |-> [now |-> 0, pend |-> {}, next |-> 1, cell |-> <<>>, jobs |-> {},
           store |-> NoEntry, uncaught |-> FALSE]]

Vals(h) == [i \in DOMAIN h |-> h[i].val]

\* the last operation, with the state it started from (history)
NoOp == [op |-> "none", id |-> 0, v |-> NoValue, old |-> NoValue,
         obsB |-> EmptyWorld.obs, valsB |-> <<>>, dirty |-> FALSE]

\* the observers subscribed to the container id
On(id) == {k \in Obs : obs[k].on = id}
\* the number of calls the observer k received in the last operation
Calls(k) == obs[k].n - last.obsB[k].n

\* x.subscribe(() => count++) by the next observer not subscribed yet
SubscribeObs(k, id) ==
  /\ obs[k].on = 0
  /\ \A j \in Obs : j < k => obs[j].on /= 0
  /\ heap' = subscribe(World, id, ObsSub(k)).heap
  /\ obs' = [obs EXCEPT ![k].on = id]
  /\ last' = [NoOp EXCEPT !.op = "subscribe", !.id = id]
  /\ UNCHANGED <<tm, objs, sc, ops>>

\* ===================================================== SpecContainer
\* s = signal(v0), where a value is a primitive or a reference to an
\* object with one mutable field; observers subscribe at any time.
InitContainer ==
  \E v0 \in Values \cup ObjRefs :
    LET s == signal(EmptyWorld, v0)
    IN /\ heap = s.w.heap
       /\ obs = s.w.obs
       /\ tm = s.w.tm
       /\ objs = NoObjs
       /\ sc = [kind |-> "container", s |-> s.id, snap |-> 0]
       /\ last = NoOp
       /\ ops = 0

\* s._set(v) from the top level; dirty: v is an object whose field was
\* changed since the container last took it
SetS(v) ==
  /\ ops < MaxOps
  /\ Commit(set(World, sc.s, v))
  /\ last' = [op |-> "set", id |-> sc.s, v |-> v, old |-> heap[sc.s].val,
              obsB |-> obs, valsB |-> Vals(heap),
              dirty |-> v \in ObjRefs /\ objs[v] /= sc.snap]
  /\ sc' = [sc EXCEPT !.snap = IF v \in ObjRefs THEN objs[v] ELSE 0]
  /\ ops' = ops + 1
  /\ UNCHANGED objs

\* in-place mutation of an object (a field assignment by the caller)
MutateObj(r) ==
  /\ ops < MaxOps
  /\ objs' = [objs EXCEPT ![r] = 1 - @]
  /\ last' = [NoOp EXCEPT !.op = "mutate", !.v = r]
  /\ ops' = ops + 1
  /\ UNCHANGED <<heap, obs, tm, sc>>

NextContainer ==
  \/ \E v \in Values \cup ObjRefs : SetS(v)
  \/ \E r \in ObjRefs : MutateObj(r)
  \/ \E k \in Obs : SubscribeObs(k, sc.s)

SpecContainer == InitContainer /\ [][NextContainer]_vars

\* C1: a _set with a value strictly equal to the current one leaves the
\* value alone and calls no subscriber (also when the value is an object
\* that was mutated in place); a _set with another value stores it and
\* calls every registered subscriber exactly once, with the new value.
C1_ChangeSuppression ==
  last.op = "set" =>
    IF last.v = last.old
    THEN /\ heap[last.id].val = last.old
         /\ \A k \in Obs : Calls(k) = 0
    ELSE /\ heap[last.id].val = last.v
         /\ \A k \in On(last.id) : Calls(k) = 1 /\ obs[k].got = last.v

\* an object reference is set again after the object was mutated in place,
\* on a container whose two subscribers have been notified once before
C1_Witness ==
  /\ last.op = "set"
  /\ last.v = last.old /\ last.dirty
  /\ On(sc.s) = {1, 2}
  /\ \A k \in On(sc.s) : obs[k].n = 1

\* ===================================================== SpecSignal
\* c = signal(c0); dF = c.map(f); dFG = dF.map(g);
\* dC = c.map(compose(g, f)); dI = c.map(id); dFG.subscribe(observer 1).
SignalScene(c0, f, g) ==
  LET c == signal(EmptyWorld, c0)
      dF == map(c.w, c.id, <<f>>)
      dFG == map(dF.w, dF.id, <<g>>)
      dC == map(dFG.w, c.id, compose(<<g>>, <<f>>))
      dI == map(dC.w, c.id, <<"id">>)
      W1 == subscribe(dI.w, dFG.id, ObsSub(1))
  IN [w |-> [W1 EXCEPT !.obs[1].on = dFG.id],
      names |-> [kind |-> "signal", c |-> c.id, dF |-> dF.id, dFG |-> dFG.id,
                 dC |-> dC.id, dI |-> dI.id, f |-> f, g |-> g]]

InitSignal ==
  \E c0 \in Values, f \in FnNames, g \in FnNames :
    LET s == SignalScene(c0, f, g)
    IN /\ heap = s.w.heap
       /\ obs = s.w.obs
       /\ tm = s.w.tm
       /\ objs = NoObjs
       /\ sc = s.names
       /\ last = NoOp
       /\ ops = 0

\* c._set(v) from the top level
SetC(v) ==
  /\ ops < MaxOps
  /\ Commit(set(World, sc.c, v))
  /\ last' = [op |-> "set", id |-> sc.c, v |-> v, old |-> heap[sc.c].val,
              obsB |-> obs, valsB |-> Vals(heap), dirty |-> FALSE]
  /\ ops' = ops + 1
  /\ UNCHANGED <<objs, sc>>

NextSignal == \E v \in Values : SetC(v)

SpecSignal == InitSignal /\ [][NextSignal]_vars

\* C2: d = c.map(f) has d.value() = f(c.value()) at creation and after
\* every c._set (also for the second link of a chain), and the subscribers
\* of the chain c.map(f).map(g) are called exactly once by a c._set that
\* changes the chain's value and not at all by any other c._set.
C2_MapFollowsSource ==
  /\ heap[sc.dF].val = ApplyFn(sc.f, heap[sc.c].val)
  /\ heap[sc.dFG].val = ApplyFn(sc.g, heap[sc.dF].val)
  /\ (last.op = "set" /\ last.id = sc.c) =>
       \A k \in On(sc.dFG) :
         Calls(k) = IF heap[sc.dFG].val /= last.valsB[sc.dFG] THEN 1 ELSE 0

\* a c._set changed the value of the chain, whose subscriber was called
C2_Witness ==
  /\ last.op = "set" /\ last.id = sc.c
  /\ heap[sc.dFG].val /= last.valsB[sc.dFG]
  /\ heap[sc.dFG].val /= heap[sc.c].val
  /\ \E k \in On(sc.dFG) : Calls(k) = 1

\* C3: functor identity, c.map(id).value() = c.value() in every state.
C3_FunctorIdentity == heap[sc.dI].val = heap[sc.c].val

\* c was updated to a new value and c.map(id) holds it
C3_Witness ==
  /\ last.op = "set" /\ last.id = sc.c /\ last.v /= last.old
  /\ heap[sc.dI].val = last.v

\* C4: functor composition, c.map(x => g(f(x))).value() =
\* c.map(f).map(g).value() in every state.
C4_FunctorComposition == heap[sc.dC].val = heap[sc.dFG].val

\* c changed but f(new) = f(old): the intermediate container c.map(f)
\* suppressed its notification
C4_Witness ==
  /\ last.op = "set" /\ last.id = sc.c /\ last.v /= last.old
  /\ heap[sc.dF].val = last.valsB[sc.dF]
  /\ sc.g /= "id" /\ sc.f /= "zero"


\* ===================================================== SpecEffect
\* m = effect(m0); rF = m.bind(f); L = rF.bind(g);
\* R = m.bind(a => f(a).bind(g)); rP = m.bind(pureEffect);
\* rF.subscribe(observer 1).
\* f is either x => effect(fn(x)) or x => E[x] for Effects E[0..MaxVal]
\* created beforehand with the values fn(x); g is x => effect(gn(x)).
EffectScene(m0, shared, fn, gn) ==
  LET m == effect(EmptyWorld, m0)
      tbl == IF shared THEN [x \in 1..Modulus |-> m.id + x] ELSE <<>>
      W0 == [m.w EXCEPT !.heap = @ \o
               [x \in DOMAIN tbl |->
                  [val |-> ApplyFn(fn, x - 1), subs |-> <<>>]]]
      f == IF shared THEN Shared(tbl) ELSE Fresh(fn)
      g == Fresh(gn)
      rF == bind(W0, m.id, f)
      L == bind(rF.w, rF.id, g)
      R == bind(L.w, m.id, Then(f, g))
      rP == bind(R.w, m.id, pureEffect)
      W1 == subscribe(rP.w, rF.id, ObsSub(1))
  IN [w |-> [W1 EXCEPT !.obs[1].on = rF.id],
      names |-> [kind |-> "effect", m |-> m.id, rF |-> rF.id, L |-> L.id,
                 R |-> R.id, rP |-> rP.id, f |-> f, g |-> g, tbl |-> tbl,
                 emitted |-> {}]]

InitEffect ==
  \E m0 \in Values, shared \in BOOLEAN, fn \in FnNames, gn \in FnNames :
    LET s == EffectScene(m0, shared, fn, gn)
    IN /\ heap = s.w.heap
       /\ obs = s.w.obs
       /\ tm = s.w.tm
       /\ objs = NoObjs
       /\ sc = s.names
       /\ last = NoOp
       /\ ops = 0

\* m._set(v) from the top level
SetM(v) ==
  /\ ops < MaxOps
  /\ Commit(set(World, sc.m, v))
  /\ last' = [op |-> "setM", id |-> sc.m, v |-> v, old |-> heap[sc.m].val,
              obsB |-> obs, valsB |-> Vals(heap), dirty |-> FALSE]
  /\ sc' = [sc EXCEPT !.emitted =
              IF v /= heap[sc.m].val THEN @ \cup {v} ELSE @]
  /\ ops' = ops + 1
  /\ UNCHANGED objs

\* E[x]._set(v) from the top level, on an Effect that f returns
SetInner(x, v) ==
  /\ ops < MaxOps
  /\ x + 1 \in DOMAIN sc.tbl
  /\ Commit(set(World, sc.tbl[x + 1], v))
  /\ last' = [op |-> "setInner", id |-> sc.tbl[x + 1], v |-> v,
              old |-> heap[sc.tbl[x + 1]].val,
              obsB |-> obs, valsB |-> Vals(heap), dirty |-> FALSE]
  /\ ops' = ops + 1
  /\ UNCHANGED <<objs, sc>>

NextEffect ==
  \/ \E v \in Values : SetM(v)
  \/ \E x \in Values, v \in Values : SetInner(x, v)

SpecEffect == InitEffect /\ [][NextEffect]_vars

\* f(a).value() evaluated in the current state
NowVal(ef, a) ==
  LET r == CallEff(World, ef, a) IN r.w.heap[r.id].val

\* C5: left identity, pureEffect(a).bind(f).value() = f(a).value() at every
\* instant, where a is the value the bound Effect holds.
C5_LeftIdentity == heap[sc.rF].val = NowVal(sc.f, heap[sc.m].val)

\* C6: right identity, m.bind(pureEffect).value() = m.value() in every
\* state.
C6_RightIdentity == heap[sc.rP].val = heap[sc.m].val

\* m emitted a new value and m.bind(pureEffect) holds it
C6_Witness ==
  /\ last.op = "setM" /\ last.v /= last.old
  /\ heap[sc.rP].val = last.v
  /\ Cardinality(sc.emitted) > 1

\* C7: associativity, m.bind(f).bind(g).value() =
\* m.bind(a => f(a).bind(g)).value() in every state.
C7_Associativity == heap[sc.L].val = heap[sc.R].val

\* the inner Effects the bind subscriber of rF has subscribed to
LiveInner ==
  UNION {{<<i, j>> : j \in {j \in DOMAIN heap[i].subs :
                              heap[i].subs[j] = FwdSub(sc.rF)}} :
         i \in DOMAIN heap}

\* an inner Effect f(v) that an emission of m produced
Produced(id) == \E v \in sc.emitted : sc.tbl[v + 1] = id

\* when m emits v, r = m.bind(f) holds f(v).value() when m._set returns
\* and r's subscribers are called exactly once if r's value changed, not
\* at all otherwise
EmissionReachesResult ==
  (last.op = "setM" /\ last.v /= last.old) =>
    /\ heap[sc.rF].val = NowVal(sc.f, last.v)
    /\ \A k \in On(sc.rF) :
         Calls(k) = IF heap[sc.rF].val /= last.valsB[sc.rF] THEN 1 ELSE 0

\* C8 as stated: when m emits v, r = m.bind(f) holds f(v).value() when
\* m._set returns, with one notification if r changed; and after every
\* later _set(w) on an inner Effect f(v) that an emission produced, r
\* holds w.
C8_EverySetWritten ==
  /\ EmissionReachesResult
  /\ (last.op = "setInner" /\ Produced(last.id)) => heap[sc.rF].val = last.v

\* C8 as amended: the same, for every later _set(w) that changes the value
\* of the inner Effect (a _set with the inner Effect's current value calls
\* no subscriber, so it writes nothing into r).
C8_BindPropagates ==
  /\ EmissionReachesResult
  /\ (last.op = "setInner" /\ Produced(last.id) /\ last.v /= last.old) =>
       heap[sc.rF].val = last.v

\* an inner Effect that an emission of m produced was set to a new value,
\* which reached r and its subscriber
C8_Witness ==
  /\ last.op = "setInner" /\ last.v /= last.old
  /\ Produced(last.id)
  /\ last.v /= last.valsB[sc.rF]
  /\ heap[sc.rF].val = last.v
  /\ \A k \in On(sc.rF) : Calls(k) = 1 /\ obs[k].got = last.v

\* C9: a bind-derived Effect has at most one live inner subscription, and
\* a _set on an inner Effect other than the latest one leaves the result
\* alone.
C9_SwitchSemantics ==
  /\ Cardinality(LiveInner) <= 1
  /\ (last.op = "setInner" /\ last.id /= sc.tbl[heap[sc.m].val + 1]) =>
       heap[sc.rF].val = last.valsB[sc.rF]

\* ===================================================== SpecDebounce
\* source = time(s0); debounced = debounce(DebounceMs, source);
\* debounced.subscribe(observer 1).
\* Time is counted in ticks; a timer runs as soon as it is due, before the
\* clock moves on, and the source may emit at any instant.
DebounceScene(s0) ==
  LET source == time(EmptyWorld, s0)
      debounced == debounce(source.w, DebounceMs, source.id)
      W1 == subscribe(debounced.w, debounced.id, ObsSub(1))
  IN [w |-> [W1 EXCEPT !.obs[1].on = debounced.id],
      names |-> [kind |-> "debounce", source |-> source.id,
                 debounced |-> debounced.id,
                 emitAt |-> 0, burst |-> 0, fired |-> 0, writes |-> 0,
                 emitted |-> FALSE]]

InitDebounce ==
  \E s0 \in Values :
    LET s == DebounceScene(s0)
    IN /\ heap = s.w.heap
       /\ obs = s.w.obs
       /\ tm = s.w.tm
       /\ objs = NoObjs
       /\ sc = s.names
       /\ last = NoOp
       /\ ops = 0

\* source._set(v) from the top level
Emit(v) ==
  /\ ops < MaxOps
  /\ Commit(set(World, sc.source, v))
  /\ last' = [op |-> "emit", id |-> sc.source, v |-> v,
              old |-> heap[sc.source].val,
              obsB |-> obs, valsB |-> Vals(heap), dirty |-> FALSE]
  /\ sc' = IF v /= heap[sc.source].val
           THEN [sc EXCEPT !.emitAt = tm.now, !.burst = @ + 1, !.writes = 0,
                           !.emitted = TRUE]
           ELSE sc
  /\ ops' = ops + 1
  /\ UNCHANGED objs

\* the timers that are due, and the one the platform runs first
Due == {t \in tm.pend : t.due <= tm.now}
FirstDue ==
  CHOOSE t \in Due :
    \A u \in Due : t.due < u.due \/ (t.due = u.due /\ t.id <= u.id)

\* the platform runs the callback of the first due timer
Fire ==
  /\ Due /= {}
  /\ LET t == FirstDue
         W1 == [World EXCEPT !.tm.pend = @ \ {t}]
     IN /\ Commit(set(W1, t.cb.target, t.cb.v))
        /\ last' = [op |-> "fire", id |-> t.cb.target, v |-> t.cb.v,
                    old |-> heap[t.cb.target].val,
                    obsB |-> obs, valsB |-> Vals(heap), dirty |-> FALSE]
  /\ sc' = [sc EXCEPT !.burst = 0, !.fired = sc.burst, !.writes = @ + 1]
  /\ UNCHANGED <<objs, ops>>

\* one tick passes; every timer that was due has run
Tick ==
  /\ Due = {}
  /\ tm.now < MaxTime
  /\ tm' = [tm EXCEPT !.now = @ + 1]
  /\ last' = [NoOp EXCEPT !.op = "tick"]
  /\ UNCHANGED <<heap, obs, objs, sc, ops>>

NextDebounce ==
  \/ \E v \in Values : Emit(v)
  \/ Fire
  \/ Tick

SpecDebounce == InitDebounce /\ [][NextDebounce]_vars

\* C10: debounce keeps at most one timer pending; an emission of the
\* source writes nothing to the output; the timer runs DebounceMs after the
\* last emission of a burst and writes the last emitted value, calling the
\* output's subscribers once if that value differs from the output's and
\* not at all otherwise; and once the burst has been followed by
\* DebounceMs of silence exactly one write has been made since its last
\* emission.
C10_Debounce ==
  /\ Cardinality(tm.pend) <= 1
  /\ sc.writes <= 1
  /\ (sc.emitted /\ (tm.pend = {} \/ tm.now > sc.emitAt + DebounceMs)) =>
       sc.writes = 1
  /\ tm.pend /= {} => sc.writes = 0
  /\ last.op = "fire" =>
       /\ last.v = heap[sc.source].val
       /\ tm.now = sc.emitAt + DebounceMs
       /\ heap[sc.debounced].val = last.v
       /\ \A k \in On(sc.debounced) :
            Calls(k) = IF last.v /= last.old THEN 1 ELSE 0
  /\ last.op = "emit" =>
       /\ heap[sc.debounced].val = last.valsB[sc.debounced]
       /\ \A k \in On(sc.debounced) : Calls(k) = 0

\* a burst of three emissions in one instant was followed by DebounceMs
\* of silence and then by one notification, carrying the last value
C10_Witness ==
  /\ last.op = "fire"
  /\ sc.fired = 3
  /\ tm.now = DebounceMs
  /\ Calls(1) = 1 /\ obs[1].n = 1 /\ obs[1].got = heap[sc.source].val

\* ===================================================== SpecFsm
\* f = fsm(s0, <<row1, row2>>); f.subscribe(observer 1).
\* States are numbered; the actions are 0 and 1.  A row's guard is absent
\* ("none") or a function that returns the flag of the environment, which
\* the environment may flip between two sends.
Actions == {0, 1}
Rows == [from : Values, to : Values, on : Actions, guard : {"none", "flag"}]

\* !t.guard || t.guard()
GuardIgnored(t, flag) == TRUE
GuardPasses(t, flag) == t.guard = "none" \/ flag

\* getTransition(action): transitions.find(...), the index of the first
\* matching row, 0 for undefined
getTransitionLast(W, id, transitions, action, flag) ==
  LET m == {i \in DOMAIN transitions :
              /\ transitions[i].from = W.heap[id].val
              /\ transitions[i].on = action
              /\ GuardPasses(transitions[i], flag)}
  IN IF m = {} THEN 0 ELSE CHOOSE i \in m : \A j \in m : i >= j
getTransition(W, id, transitions, action, flag) ==
  LET m == {i \in DOMAIN transitions :
              /\ transitions[i].from = W.heap[id].val
              /\ transitions[i].on = action
              /\ GuardPasses(transitions[i], flag)}
  IN IF m = {} THEN 0 ELSE CHOOSE i \in m : \A j \in m : i <= j

\* fsm(initialState, transitions): currentState and the subscriber Set
fsm(W, initialState) ==
  [w |-> [W EXCEPT !.heap = Append(@, [val |-> initialState, subs |-> <<>>])],
   id |-> Len(W.heap) + 1]

\* send(action): if (transition) { currentState = transition.to; notify() }
fsmSend(W, id, transitions, action, flag) ==
  LET i == getTransition(W, id, transitions, action, flag)
  IN IF i /= 0
     THEN notify([W EXCEPT !.heap[id].val = transitions[i].to], id, 1)
     ELSE W

\* can(action): getTransition(action) !== undefined
can(W, id, transitions, action, flag) ==
  getTransition(W, id, transitions, action, flag) /= 0

InitFsm ==
  \E s0 \in Values, row1 \in Rows, row2 \in Rows :
    LET f == fsm(EmptyWorld, s0)
        W1 == subscribe(f.w, f.id, ObsSub(1))
    IN /\ heap = W1.heap
       /\ obs = [W1.obs EXCEPT ![1].on = f.id]
       /\ tm = W1.tm
       /\ objs = NoObjs
       /\ sc = [kind |-> "fsm", f |-> f.id, transitions |-> <<row1, row2>>,
                flag |-> FALSE]
       /\ last = NoOp
       /\ ops = 0

\* f.send(action) from the top level; dirty records the flag
FsmSend(action) ==
  /\ ops < MaxOps
  /\ Commit(fsmSend(World, sc.f, sc.transitions, action, sc.flag))
  /\ last' = [op |-> "send", id |-> sc.f, v |-> action,
              old |-> heap[sc.f].val,
              obsB |-> obs, valsB |-> Vals(heap), dirty |-> sc.flag]
  /\ ops' = ops + 1
  /\ UNCHANGED <<objs, sc>>

\* the environment changes what the guards return
FlipFlag ==
  /\ ops < MaxOps
  /\ sc' = [sc EXCEPT !.flag = ~@]
  /\ last' = [NoOp EXCEPT !.op = "flip"]
  /\ UNCHANGED <<heap, obs, tm, objs, ops>>

NextFsm ==
  \/ \E a \in Actions : FsmSend(a)
  \/ FlipFlag

SpecFsm == InitFsm /\ [][NextFsm]_vars

\* a row that the last send could take: from = the state the send started
\* in, on = the action sent, guard absent or returning true
Enabled(t) ==
  /\ t.from = last.old
  /\ t.on = last.v
  /\ (t.guard = "flag" => last.dirty)

\* C12: a send for which no row has from = current, on = action and an
\* absent or true-returning guard leaves current unchanged and calls no
\* subscriber.
C12_FsmNoOp ==
  (last.op = "send" /\ \A i \in DOMAIN sc.transitions :
                         ~Enabled(sc.transitions[i])) =>
    /\ heap[sc.f].val = last.old
    /\ \A k \in Obs : Calls(k) = 0

\* after a transition was taken, a send found only a row whose guard
\* returned false and changed nothing
C12_Witness ==
  /\ last.op = "send"
  /\ obs[1].n > 0
  /\ \A i \in DOMAIN sc.transitions : ~Enabled(sc.transitions[i])
  /\ \E i \in DOMAIN sc.transitions :
       /\ sc.transitions[i].from = last.old
       /\ sc.transitions[i].on = last.v
       /\ sc.transitions[i].to /= last.old
       /\ sc.transitions[i].guard = "flag"
  /\ heap[sc.f].val = last.old

\* ===================================================== SpecMachine
\* m = machine(s0, reducer); m.subscribe(observer 1).
\* The reducers: add the action to the state, take the action as the
\* state, keep the state, and step to the next state on action 1 only.
ReducerNames == {"add", "take", "keep", "step"}

reducer(rn, state, action) ==
  CASE rn = "add" -> (state + action) % Modulus
    [] rn = "take" -> action
    [] rn = "keep" -> state
    [] rn = "step" -> IF action = 1 THEN (state + 1) % Modulus ELSE state

\* machine(initialState, reducer): currentState and the subscriber Set
machine(W, initialState) ==
  [w |-> [W EXCEPT !.heap = Append(@, [val |-> initialState, subs |-> <<>>])],
   id |-> Len(W.heap) + 1]

\* the guard of send: newState !== currentState
MachineChangedAlways(newState, currentState) == TRUE
MachineChanged(newState, currentState) == newState /= currentState

\* send(action)
machineSend(W, id, rn, action) ==
  LET newState == reducer(rn, W.heap[id].val, action)
  IN IF MachineChanged(newState, W.heap[id].val)
     THEN notify([W EXCEPT !.heap[id].val = newState], id, 1)
     ELSE W

InitMachine ==
  \E s0 \in Values, rn \in ReducerNames :
    LET m == machine(EmptyWorld, s0)
        W1 == subscribe(m.w, m.id, ObsSub(1))
    IN /\ heap = W1.heap
       /\ obs = [W1.obs EXCEPT ![1].on = m.id]
       /\ tm = W1.tm
       /\ objs = NoObjs
       /\ sc = [kind |-> "machine", m |-> m.id, reducer |-> rn,
                initialState |-> s0, sent |-> <<>>]
       /\ last = NoOp
       /\ ops = 0

\* m.send(action) from the top level
MachineSend(action) ==
  /\ ops < MaxOps + 2
  /\ Commit(machineSend(World, sc.m, sc.reducer, action))
  /\ last' = [op |-> "send", id |-> sc.m, v |-> action,
              old |-> heap[sc.m].val,
              obsB |-> obs, valsB |-> Vals(heap), dirty |-> FALSE]
  /\ sc' = [sc EXCEPT !.sent = Append(@, action)]
  /\ ops' = ops + 1
  /\ UNCHANGED objs

NextMachine == \E a \in Actions : MachineSend(a)

SpecMachine == InitMachine /\ [][NextMachine]_vars

\* the left fold of the reducer over a sequence of actions
RECURSIVE FoldLeft(_, _, _)
FoldLeft(rn, state, as) ==
  IF as = <<>> THEN state
  ELSE FoldLeft(rn, reducer(rn, state, Head(as)), Tail(as))

\* C13: after any sequence of sends the state is the left fold of the
\* reducer over the actions sent, starting from initialState; a send whose
\* reducer result differs from the current state calls every subscriber
\* exactly once, and a send whose result equals it calls none.
C13_MachineFold ==
  /\ heap[sc.m].val = FoldLeft(sc.reducer, sc.initialState, sc.sent)
  /\ last.op = "send" =>
       \A k \in On(sc.m) :
         Calls(k) = IF reducer(sc.reducer, last.old, last.v) /= last.old
                    THEN 1 ELSE 0

\* a send changed the state after an earlier send had left it unchanged
C13_Witness ==
  /\ last.op = "send"
  /\ Len(sc.sent) >= 3
  /\ heap[sc.m].val /= last.old
  /\ Calls(1) = 1 /\ obs[1].got = heap[sc.m].val
  /\ obs[1].n < Len(sc.sent)
  /\ obs[1].n > 1

\* ===================================================== SpecSubs
\* s = signal(0); at any time: d = s.map(fn) or d = s.bind(x => effect(fn(x)))
\* (once), observers subscribe to s or to d, unsubscribe closures are
\* invoked (up to twice each), and s._set(v) is called from the top level.
\* sc.order lists the subscriptions on s and d in the order they were made,
\* sc.inv counts the invocations of each observer's unsubscribe closure.
Vias == {"map", "bind"}
MapEntry == [what |-> "derived", k |-> 0, c |-> "s"]
ObsEntry(k, c) == [what |-> "obs", k |-> k, c |-> c]

InitSubs ==
  \E fn \in {"inc", "zero"}, via \in Vias :
    LET s == signal(EmptyWorld, 0)
    IN /\ heap = s.w.heap
       /\ obs = s.w.obs
       /\ tm = s.w.tm
       /\ objs = NoObjs
       /\ sc = [kind |-> "subs", s |-> s.id, d |-> 0, fn |-> fn, via |-> via,
                order |-> <<>>, inv |-> [k \in Obs |-> 0]]
       /\ last = NoOp
       /\ ops = 0

\* d = s.map(fn), or d = s.bind(x => effect(fn(x)))
Derive ==
  /\ ops < MaxOps + 3
  /\ sc.d = 0
  /\ LET d == IF sc.via = "map" THEN map(World, sc.s, <<sc.fn>>)
              ELSE bind(World, sc.s, Fresh(sc.fn))
     IN /\ Commit(d.w)
        /\ sc' = [sc EXCEPT !.d = d.id, !.order = Append(@, MapEntry)]
  /\ last' = [NoOp EXCEPT !.op = "derive"]
  /\ ops' = ops + 1
  /\ UNCHANGED objs

\* c.subscribe(observer k) for c = s or c = d, by the next observer that
\* has not subscribed yet
SubscribeTo(k, c) ==
  /\ ops < MaxOps + 3
  /\ obs[k].on = 0
  /\ \A j \in Obs : j < k => obs[j].on /= 0
  /\ c = "d" => sc.d /= 0
  /\ LET id == IF c = "s" THEN sc.s ELSE sc.d
     IN /\ heap' = subscribe(World, id, ObsSub(k)).heap
        /\ obs' = [obs EXCEPT ![k].on = id]
        /\ last' = [NoOp EXCEPT !.op = "subscribe", !.id = id]
  /\ sc' = [sc EXCEPT !.order = Append(@, ObsEntry(k, c))]
  /\ ops' = ops + 1
  /\ UNCHANGED <<tm, objs>>

\* the closure that observer k's subscribe returned is invoked; old is the
\* number of its earlier invocations, dirty whether the call changed a
\* subscriber set
Unsub(k) ==
  /\ ops < MaxOps + 3
  /\ obs[k].on /= 0
  /\ sc.inv[k] < 2
  /\ LET W == unsubscribe(World, obs[k].on, ObsSub(k))
     IN /\ Commit(W)
        /\ last' = [NoOp EXCEPT !.op = "unsub", !.id = obs[k].on, !.v = k,
                                !.old = sc.inv[k],
                                !.dirty = (W.heap /= heap)]
  /\ sc' = [sc EXCEPT !.inv[k] = @ + 1]
  /\ ops' = ops + 1
  /\ UNCHANGED objs

\* s._set(v) from the top level
SetSrc(v) ==
  /\ ops < MaxOps + 3
  /\ Commit(set(World, sc.s, v))
  /\ last' = [op |-> "set", id |-> sc.s, v |-> v, old |-> heap[sc.s].val,
              obsB |-> obs, valsB |-> Vals(heap), dirty |-> FALSE]
  /\ ops' = ops + 1
  /\ UNCHANGED <<objs, sc>>

NextSubs ==
  \/ Derive
  \/ \E k \in Obs, c \in {"s", "d"} : SubscribeTo(k, c)
  \/ \E k \in Obs : Unsub(k)
  \/ \E v \in Values : SetSrc(v)

SpecSubs == InitSubs /\ [][NextSubs]_vars

\* the observers whose unsubscribe closure has been invoked
Unsubscribed == {k \in Obs : sc.inv[k] > 0}
\* the last operation was a _set on s that changed its value
SetChanged == last.op = "set" /\ last.v /= last.old
\* ... and it changed the value of d as well
DerivedChanged ==
  sc.d /= 0 /\ sc.d \in DOMAIN last.valsB
            /\ ApplyFn(sc.fn, last.v) /= last.valsB[sc.d]
\* the observers the last _set on s has to reach
Reached ==
  {k \in Obs \ Unsubscribed :
     \/ obs[k].on = sc.s
     \/ obs[k].on = sc.d /\ DerivedChanged}

\* C14: once an observer's unsubscribe closure has been invoked, no later
\* _set calls the observer, while every other subscriber of the container
\* is still called once per change; a repeated invocation of the closure
\* changes nothing.
C14_Unsubscribe ==
  /\ last.op = "set" => \A k \in Unsubscribed : Calls(k) = 0
  /\ SetChanged => \A k \in Reached : Calls(k) = 1
  /\ (last.op = "unsub" /\ last.old > 0) => ~last.dirty

\* a _set after observer 1, notified before, had its closure invoked twice:
\* observer 2 on the same container is notified, observer 1 is not
C14_Witness ==
  /\ SetChanged
  /\ sc.inv[1] = 2 /\ obs[1].n = 1 /\ obs[1].on = sc.s
  /\ obs[2].on = sc.s /\ sc.inv[2] = 0 /\ Calls(2) = 1 /\ obs[2].n = 2

\* the observers subscribed to c and not unsubscribed, in the order in
\* which they subscribed
InOrder(c) ==
  SelectSeq(sc.order, LAMBDA e : e.what = "obs" /\ e.c = c
                                 /\ e.k \notin Unsubscribed)
\* the calls a depth-first notification of s makes, in order: the
\* subscribers of s in subscription order, with the observers of d in the
\* place of the closure that feeds d
RECURSIVE DepthFirst(_)
DepthFirst(order) ==
  IF order = <<>> THEN <<>>
  ELSE LET e == Head(order)
           here == IF e.what = "derived"
                   THEN IF DerivedChanged THEN InOrder("d") ELSE <<>>
                   ELSE IF e.c = "s" /\ e.k \notin Unsubscribed
                        THEN <<e>> ELSE <<>>
       IN here \o DepthFirst(Tail(order))

\* C15: a _set that changes the value of s calls, before it returns, the
\* subscribers of s in subscription order and, in the place of the map or
\* bind closure, the subscribers of the derived container (depth-first);
\* the derived container holds its new value and no timer is left pending.
C15_SynchronousOrder ==
  SetChanged =>
    LET E == DepthFirst(sc.order)
        before == Clock(last.obsB)
    IN /\ Clock(obs) = before + Len(E)
       /\ \A i \in DOMAIN E :
            /\ obs[E[i].k].at = before + i
            /\ obs[E[i].k].got = IF E[i].c = "s" THEN last.v
                                 ELSE ApplyFn(sc.fn, last.v)
       /\ heap[sc.s].val = last.v
       /\ sc.d /= 0 => heap[sc.d].val = ApplyFn(sc.fn, last.v)
       /\ tm.pend = {}

\* the closure feeding d subscribed to s before observer 2 did: the
\* observer of d is called first, then observer 2, within the same _set
C15_Witness ==
  /\ SetChanged
  /\ Len(sc.order) = 3 /\ sc.order[1] = MapEntry
  /\ obs[1].on = sc.d /\ obs[2].on = sc.s
  /\ Unsubscribed = {}
  /\ obs[1].at = Clock(last.obsB) + 1
  /\ obs[2].at = Clock(last.obsB) + 2
  /\ obs[1].n = 2

\* ===================================================== SpecSequence
\* e1 = effect(a); e2 = effect(b); at some time r = sequence(inputs) for
\* an array of at most MaxLen of them (repetitions allowed), followed by
\* r.subscribe(observer 1); e1 and e2 are set from the top level.
MaxLen == 2

\* effects.reduce((acc, curr) => acc.bind(arr => curr.map(...)), acc)
RECURSIVE reduce(_, _, _)
reduce(W, acc, effects) ==
  IF effects = <<>> THEN [w |-> W, id |-> acc]
  ELSE LET b == bind(W, acc, SeqStep(Head(effects)))
       IN reduce(b.w, b.id, Tail(effects))

\* sequence(effects): the reduction from pureEffect([])
sequence(W, effects) ==
  LET p == effect(W, <<>>) IN reduce(p.w, p.id, effects)

InitSequence ==
  \E a \in Values, b \in Values :
    LET e1 == effect(EmptyWorld, a)
        e2 == effect(e1.w, b)
    IN /\ heap = e2.w.heap
       /\ obs = e2.w.obs
       /\ tm = e2.w.tm
       /\ objs = NoObjs
       /\ sc = [kind |-> "sequence", inputs |-> <<>>, r |-> 0,
                snapshot |-> <<>>]
       /\ last = NoOp
       /\ ops = 0

\* r = sequence(inputs); r.subscribe(observer 1).  snapshot: the values
\* the inputs hold when sequence is called
Sequence(inputs) ==
  /\ sc.r = 0
  /\ LET r == sequence(World, inputs)
         W1 == subscribe(r.w, r.id, ObsSub(1))
     IN /\ heap' = W1.heap
        /\ obs' = [W1.obs EXCEPT ![1].on = r.id]
        /\ tm' = W1.tm
        /\ sc' = [sc EXCEPT !.inputs = inputs, !.r = r.id,
                            !.snapshot = [i \in DOMAIN inputs |->
                                            heap[inputs[i]].val]]
  /\ last' = [NoOp EXCEPT !.op = "sequence"]
  /\ UNCHANGED <<objs, ops>>

\* e._set(v) on one of the two Effects
SetInput(e, v) ==
  /\ ops < MaxOps
  /\ Commit(set(World, e, v))
  /\ last' = [op |-> "set", id |-> e, v |-> v, old |-> heap[e].val,
              obsB |-> obs, valsB |-> Vals(heap), dirty |-> FALSE]
  /\ ops' = ops + 1
  /\ UNCHANGED <<objs, sc>>

NextSequence ==
  \/ \E n \in 0..MaxLen : \E inputs \in [1..n -> 1..2] : Sequence(inputs)
  \/ \E e \in 1..2, v \in Values : SetInput(e, v)

SpecSequence == InitSequence /\ [][NextSequence]_vars

\* C16: the value of sequence(effects) is the array of the inputs' values
\* at the time of the call, in input order, and stays that array, with no
\* call to its subscribers, whatever is set on the inputs afterwards.
C16_SequenceSnapshot ==
  sc.r /= 0 => /\ heap[sc.r].val = sc.snapshot
               /\ obs[1].n = 0

\* both inputs of sequence([e1, e2]) have been set to other values since
C16_Witness ==
  /\ sc.r /= 0 /\ sc.inputs = <<1, 2>>
  /\ last.op = "set" /\ last.v /= last.old
  /\ heap[1].val /= sc.snapshot[1]
  /\ heap[2].val /= sc.snapshot[2]

\* ===================================================== SpecInterval
\* t1 = time(v0); iv = t1.interval(IntervalMs); observers subscribe to iv
\* and invoke the closures that subscribe returned (up to twice each).
IntervalMs == 2

\* the closure variables of one interval call, as cells of tm.cell:
\* intervalId (0 for undefined), subscriberCount, tickCount
IntervalId(c) == c
SubscriberCount(c) == c + 1
TickCount(c) == c + 2

\* currentValue + tickCount * 0.000001 for a number: the value with the
\* tick count in a lower digit (a different number for every tick count)
TickValue(currentValue, tickCount) == currentValue + tickCount * Modulus

\* the callback given to setInterval
TickCb(target, base, c, ms) ==
  [kind |-> "tick", target |-> target, base |-> base, c |-> c, ms |-> ms]

\* setInterval(cb, ms): a timer that is due again ms after each run
setInterval(W, cb, ms) == setTimeout(W, cb, ms)
clearInterval(pend, id) == clearTimeout(pend, id)

\* interval(ms): intervalTime = time(baseEffect.value()) and the three
\* closure variables
interval(W, ms, id) ==
  LET intervalTime == time(W, W.heap[id].val)
      c == Len(W.tm.cell) + 1
  IN [w |-> [intervalTime.w EXCEPT !.tm.cell = @ \o <<0, 0, 0>>],
      id |-> intervalTime.id, c |-> c]

\* customIntervalTime.subscribe(fn)
intervalSubscribe(W, iv, base, c, ms, fn) ==
  LET W1 == [W EXCEPT !.tm.cell[SubscriberCount(c)] = @ + 1]
      W2 == IF W1.tm.cell[SubscriberCount(c)] = 1
            THEN LET W3 == setInterval(W1, TickCb(iv, base, c, ms), ms)
                 IN [W3 EXCEPT !.tm.cell[IntervalId(c)] = W3.tm.next - 1]
            ELSE W1
  IN subscribe(W2, iv, fn)

\* the closure customIntervalTime.subscribe returned
intervalUnsubscribe(W, iv, c, fn) ==
  LET W1 == [W EXCEPT !.tm.cell[SubscriberCount(c)] = @ - 1]
      W2 == IF W1.tm.cell[SubscriberCount(c)] = 0
               /\ W1.tm.cell[IntervalId(c)] /= 0
            THEN [W1 EXCEPT !.tm.pend =
                              clearInterval(@, W1.tm.cell[IntervalId(c)])]
            ELSE W1
  IN unsubscribe(W2, iv, fn)

\* one run of the setInterval callback
tick(W, cb) ==
  LET W1 == [W EXCEPT !.tm.cell[TickCount(cb.c)] = @ + 1]
  IN set(W1, cb.target,
         TickValue(W1.heap[cb.base].val, W1.tm.cell[TickCount(cb.c)]))

InitInterval ==
  \E v0 \in Values :
    LET t1 == time(EmptyWorld, v0)
        iv == interval(t1.w, IntervalMs, t1.id)
    IN /\ heap = iv.w.heap
       /\ obs = iv.w.obs
       /\ tm = iv.w.tm
       /\ objs = NoObjs
       /\ sc = [kind |-> "interval", t1 |-> t1.id, iv |-> iv.id, c |-> iv.c,
                inv |-> [k \in Obs |-> 0]]
       /\ last = NoOp
       /\ ops = 0

\* iv.subscribe(observer k) by the next observer that has not subscribed
IvSubscribe(k) ==
  /\ obs[k].on = 0
  /\ \A j \in Obs : j < k => obs[j].on /= 0
  /\ LET W == intervalSubscribe(World, sc.iv, sc.t1, sc.c, IntervalMs,
                                ObsSub(k))
     IN /\ heap' = W.heap
        /\ tm' = W.tm
        /\ obs' = [obs EXCEPT ![k].on = sc.iv]
  /\ last' = [NoOp EXCEPT !.op = "subscribe", !.v = k]
  /\ UNCHANGED <<objs, sc, ops>>

\* the closure that observer k's subscribe returned is invoked
IvUnsub(k) ==
  /\ obs[k].on /= 0
  /\ sc.inv[k] < 2
  /\ Commit(intervalUnsubscribe(World, sc.iv, sc.c, ObsSub(k)))
  /\ last' = [NoOp EXCEPT !.op = "unsub", !.v = k, !.old = sc.inv[k]]
  /\ sc' = [sc EXCEPT !.inv[k] = @ + 1]
  /\ UNCHANGED <<objs, ops>>

\* the platform runs the interval callback that is due and arms it again
FireTick ==
  /\ Due /= {}
  /\ LET t == FirstDue
         W1 == [World EXCEPT !.tm.pend =
                  (@ \ {t}) \cup {[t EXCEPT !.due = @ + t.cb.ms]}]
     IN Commit(tick(W1, t.cb))
  /\ last' = [NoOp EXCEPT !.op = "firetick", !.obsB = obs]
  /\ UNCHANGED <<objs, sc, ops>>

NextInterval ==
  \/ \E k \in Obs : IvSubscribe(k)
  \/ \E k \in Obs : IvUnsub(k)
  \/ FireTick
  \/ Tick

SpecInterval == InitInterval /\ [][NextInterval]_vars

\* the observers with a subscription that is still active
Active == {k \in Obs : obs[k].on /= 0 /\ sc.inv[k] = 0}
\* the platform timer of the interval is running
Running == \E t \in tm.pend : t.cb.kind = "tick"

\* C17: after any sequence of subscribe calls and unsubscribe-closure
\* invocations the interval's timer is running exactly when at least one
\* subscription is active, and a tick calls no observer that has
\* unsubscribed.
C17_IntervalRefCount ==
  /\ Running <=> Active /= {}
  /\ last.op = "firetick" => \A k \in Obs : sc.inv[k] > 0 => Calls(k) = 0

\* ===================================================== SpecTimeout
\* t1 = time(v0); timedOut = t1.timeout(TimeoutMs);
\* timedOut.subscribe(observer 1); t1 is set from the top level while
\* time passes.
TimeoutMs == 2

\* new Error(`Timeout after ${ms}ms`): a value that is no emitted value
TimeoutError == -2

\* the callback given to setTimeout: c is the cell of hasCompleted
TimeoutCb(target, c) == [kind |-> "timeout", target |-> target, c |-> c]

\* timeout(ms): timedOut = time(baseEffect.value()), hasCompleted = false,
\* the timer and the subscriber on the source
timeout(W, ms, id) ==
  LET timedOut == time(W, W.heap[id].val)
      W1 == [timedOut.w EXCEPT !.tm.cell = Append(@, 0)]
      c == Len(W1.tm.cell)
      W2 == setTimeout(W1, TimeoutCb(timedOut.id, c), ms)
      timeoutId == W2.tm.next - 1
  IN [w |-> subscribe(W2, id, TimeoutSub(timedOut.id, c, timeoutId)),
      id |-> timedOut.id, c |-> c]

\* the timer callback: if (!hasCompleted) timedOut._set(new Error(...))
timeoutFired(W, cb) ==
  IF notCompleted(W.tm.cell[cb.c]) THEN set(W, cb.target, TimeoutError)
  ELSE W

\* sc.first: what resolved the race first ("emit" with the value firstV,
\* or "timer"); sc.emits: the emissions of the source so far
InitTimeout ==
  \E v0 \in Values :
    LET t1 == time(EmptyWorld, v0)
        r == timeout(t1.w, TimeoutMs, t1.id)
        W1 == subscribe(r.w, r.id, ObsSub(1))
    IN /\ heap = W1.heap
       /\ obs = [W1.obs EXCEPT ![1].on = r.id]
       /\ tm = W1.tm
       /\ objs = NoObjs
       /\ sc = [kind |-> "timeout", t1 |-> t1.id, timedOut |-> r.id,
                c |-> r.c, first |-> "none", firstV |-> NoValue,
                emits |-> 0]
       /\ last = NoOp
       /\ ops = 0

\* t1._set(v) from the top level
EmitT(v) ==
  /\ ops < MaxOps
  /\ Commit(set(World, sc.t1, v))
  /\ last' = [op |-> "emit", id |-> sc.t1, v |-> v, old |-> heap[sc.t1].val,
              obsB |-> obs, valsB |-> Vals(heap), dirty |-> FALSE]
  /\ sc' = IF v = heap[sc.t1].val THEN sc
           ELSE IF sc.first = "none"
                THEN [sc EXCEPT !.first = "emit", !.firstV = v,
                                !.emits = @ + 1]
                ELSE [sc EXCEPT !.emits = @ + 1]
  /\ ops' = ops + 1
  /\ UNCHANGED objs

\* the platform runs the timeout callback that is due
FireTimeout ==
  /\ Due /= {}
  /\ LET t == FirstDue
         W1 == [World EXCEPT !.tm.pend = @ \ {t}]
     IN Commit(timeoutFired(W1, t.cb))
  /\ last' = [NoOp EXCEPT !.op = "fire", !.obsB = obs,
                          !.valsB = Vals(heap)]
  /\ sc' = IF sc.first = "none" THEN [sc EXCEPT !.first = "timer"] ELSE sc
  /\ UNCHANGED <<objs, ops>>

NextTimeout ==
  \/ \E v \in Values : EmitT(v)
  \/ FireTimeout
  \/ Tick

SpecTimeout == InitTimeout /\ [][NextTimeout]_vars

\* C18: when the source emits before the timer has fired, the result holds
\* the emitted value from then on: the timer is cancelled, no Error is
\* written and no later emission is taken (its one notification is that
\* of the first emission).
C18_EmissionWins ==
  sc.first = "emit" =>
    /\ heap[sc.timedOut].val = sc.firstV
    /\ tm.pend = {}
    /\ obs[1].n = 1 /\ obs[1].got = sc.firstV

\* the source emitted in time, the timeout has passed since, and another
\* value was emitted after it
C18_Witness ==
  /\ sc.first = "emit"
  /\ tm.now > TimeoutMs
  /\ last.op = "emit" /\ last.v /= last.old /\ last.v /= sc.firstV
  /\ sc.emits >= 2
  /\ heap[sc.timedOut].val = sc.firstV

\* C19: when the timer fires before any emission, the result holds the
\* Error from then on, delivered to its subscribers as a value, and no
\* later emission of the source replaces it.
C19_TimerWins ==
  sc.first = "timer" =>
    /\ heap[sc.timedOut].val = TimeoutError
    /\ obs[1].n = 1 /\ obs[1].got = TimeoutError

\* ------------------------------------------------------------ fetch
\* the largest n given to retry
MaxRetry == 2

\* AsyncState: a field that is absent holds NoValue (data) or NoError
NoError == [tag |-> "none", msg |-> ""]
\* what a fetcher rejects with: an Error, or a value that is no Error
Reasons == {[tag |-> "Error", msg |-> "boom"], [tag |-> "string", msg |-> "boom"]}
\* what a call of the fetcher settles with
Outcomes ==
  {[ok |-> TRUE, data |-> d, reason |-> NoError] : d \in Values}
    \cup {[ok |-> FALSE, data |-> NoValue, reason |-> e] : e \in Reasons}

\* error instanceof Error ? error : new Error(String(error))
wrapErrorRaw(error) == error
wrapError(error) ==
  IF error.tag = "Error" THEN error ELSE [tag |-> "Error", msg |-> error.msg]

\* { loading: true }, { data, loading: false }, { error, loading: false }
Loading == [loading |-> TRUE, data |-> NoValue, error |-> NoError]
Resolved(data) == [loading |-> FALSE, data |-> data, error |-> NoError]
Rejected(error) ==
  [loading |-> FALSE, data |-> NoValue, error |-> wrapError(error)]

\* _set(a newly created object): value !== current holds, whatever the
\* object's fields are
setFresh(W, id, v) == notify([W EXCEPT !.heap[id].val = v], id, 1)

\* await fetcher(): the call is in flight until the platform settles it;
\* the job records the function that awaits (kind), its target and, for
\* attemptFetch, n and attemptsLeft
await(W, kind, target, n, attemptsLeft) ==
  [W EXCEPT !.tm.jobs = @ \cup {[id |-> W.tm.next, kind |-> kind,
                                  target |-> target, n |-> n,
                                  attemptsLeft |-> attemptsLeft]},
            !.tm.next = @ + 1]

\* the handles the platform gives to fetcher calls and timers
JobIds == 1..(MaxOps + 2 * MaxRetry + 2)

\* executeFetch(target) up to its await
executeFetch(W, target) ==
  await(setFresh(W, target, Loading), "executeFetch", target, 0, 0)

\* attemptFetch(attemptsLeft) up to its await
attemptFetch(W, target, n, attemptsLeft) ==
  await(setFresh(W, target, Loading), "attemptFetch", target, n, attemptsLeft)

\* the callback () => attemptFetch(attemptsLeft - 1)
RetryCb(target, n, attemptsLeft) ==
  [kind |-> "retry", target |-> target, n |-> n,
   attemptsLeft |-> attemptsLeft]

\* Math.pow(2, n - attemptsLeft) * 1000 ms, in seconds
backoff(n, attemptsLeft) == 2 ^ (n - attemptsLeft)

\* the rest of executeFetch or attemptFetch once the fetcher has settled
settledLatestOnly(W, job, o) ==
  IF job.id < W.tm.next - 1 THEN W
  ELSE IF o.ok THEN setFresh(W, job.target, Resolved(o.data))
  ELSE setFresh(W, job.target, Rejected(o.reason))
settledRetrying(W, job, o) ==
  IF o.ok THEN setFresh(W, job.target, Resolved(o.data))
  ELSE executeFetch(setFresh(W, job.target, Rejected(o.reason)), job.target)
settled(W, job, o) ==
  IF o.ok THEN setFresh(W, job.target, Resolved(o.data))
  ELSE IF job.kind = "attemptFetch" /\ job.attemptsLeft > 0
       THEN setTimeout(W, RetryCb(job.target, job.n, job.attemptsLeft - 1),
                       backoff(job.n, job.attemptsLeft))
       ELSE setFresh(W, job.target, Rejected(o.reason))

RECURSIVE subscribeDeps(_, _, _)
subscribeDeps(W, deps, target) ==
  IF deps = <<>> THEN W
  ELSE subscribeDeps(subscribe(W, Head(deps), DepSub(target)), Tail(deps),
                     target)

\* fetch(fetcher, deps): baseEffect = effect({loading: true}), the first
\* executeFetch and the subscriptions on the dependencies
fetch(W, deps) ==
  LET baseEffect == effect(W, Loading)
  IN [w |-> subscribeDeps(executeFetch(baseEffect.w, baseEffect.id), deps,
                          baseEffect.id),
      id |-> baseEffect.id]

\* retry(n): retryFetch = fetch(fetcher, deps); attemptFetch(n)
retryInPlace(W, deps, n) == [w |-> attemptFetch(W, 1, n, n), id |-> 1]
retry(W, deps, n) ==
  LET retryFetch == fetch(W, deps)
  IN [w |-> attemptFetch(retryFetch.w, retryFetch.id, n, n),
      id |-> retryFetch.id]

\* ===================================================== SpecFetch
\* dep = effect(d0); f = fetch(fetcher, [dep]); f.subscribe(observer 1).
\* The fetcher settles every call as the environment decides; dep is set
\* from the top level.  sc.started counts the cycles started since the
\* observer subscribed, sc.done those that have settled.
InitFetch ==
  \E d0 \in Values :
    LET dep == effect(EmptyWorld, d0)
        f == fetch(dep.w, <<dep.id>>)
        W1 == subscribe(f.w, f.id, ObsSub(1))
    IN /\ heap = W1.heap
       /\ obs = [W1.obs EXCEPT ![1].on = f.id]
       /\ tm = W1.tm
       /\ objs = NoObjs
       /\ sc = [kind |-> "fetch", dep |-> dep.id, f |-> f.id,
                started |-> 0, done |-> 0]
       /\ last = NoOp
       /\ ops = 0

\* dep._set(v) from the top level: a change starts a fetch cycle
SetDep(v) ==
  /\ ops < MaxOps
  /\ Commit(set(World, sc.dep, v))
  /\ last' = [op |-> "dep", id |-> sc.dep, v |-> v, old |-> heap[sc.dep].val,
              obsB |-> obs, valsB |-> <<>>, dirty |-> FALSE]
  /\ sc' = IF v /= heap[sc.dep].val THEN [sc EXCEPT !.started = @ + 1]
           ELSE sc
  /\ ops' = ops + 1
  /\ UNCHANGED objs

\* the platform settles the fetcher call id, which is in flight, with the
\* outcome o and resumes the function that awaits it
Settle(id, o) ==
  /\ \E job \in tm.jobs :
       /\ job.id = id
       /\ Commit(settled([World EXCEPT !.tm.jobs = @ \ {job}], job, o))
       /\ last' = [op |-> "settle", id |-> job.target, v |-> o,
                   old |-> NoValue, obsB |-> obs, valsB |-> <<>>,
                   dirty |-> FALSE]
  /\ sc' = [sc EXCEPT !.done = @ + 1]
  /\ UNCHANGED <<objs, ops>>

NextFetch ==
  \/ \E v \in Values : SetDep(v)
  \/ \E id \in JobIds, o \in Outcomes : Settle(id, o)

SpecFetch == InitFetch /\ [][NextFetch]_vars

\* C20: a fetch cycle writes {loading: true} when it starts and, when its
\* fetcher call settles, one terminal state: {data, loading: false} for a
\* resolution, {error, loading: false} with an Error (a non-Error reason
\* wrapped) for a rejection; no written state has both data and error, and
\* nothing else is written.
C20_FetchCycle ==
  /\ (last.op = "dep" /\ last.v /= last.old) =>
       /\ Calls(1) = 1
       /\ obs[1].got = [loading |-> TRUE, data |-> NoValue, error |-> NoError]
  /\ last.op = "settle" =>
       /\ Calls(1) = 1
       /\ ~obs[1].got.loading
       /\ IF last.v.ok
          THEN obs[1].got.data = last.v.data /\ obs[1].got.error = NoError
          ELSE /\ obs[1].got.data = NoValue
               /\ obs[1].got.error.tag = "Error"
               /\ obs[1].got.error.msg = last.v.reason.msg
  /\ obs[1].n = sc.started + sc.done
  /\ Cardinality(tm.jobs) = 1 + sc.started - sc.done

\* two cycles overlapped; the second one to settle rejected with a value
\* that is no Error, after the first had resolved
C20_Witness ==
  /\ last.op = "settle" /\ ~last.v.ok /\ last.v.reason.tag = "string"
  /\ sc.started >= 1 /\ sc.done = 2
  /\ obs[1].n = 3
  /\ heap[sc.f].val.error.tag = "Error"

\* ===================================================== SpecRetry
\* f = fetch(fetcher); r = f.retry(n); r.subscribe(observer 1), for a
\* fetcher that always rejects (sc.fails) or settles as the environment
\* decides.  sc.attempts counts the fetcher calls made for r, sc.late
\* those made after r first held {error, loading: false}.
\* the fetcher calls in flight for the Fetch id
InFlight(jobs, id) == {j \in jobs : j.target = id}
\* { loading: false, data: undefined, error: <Error> }
Terminal(state) ==
  ~state.loading /\ state.data = NoValue /\ state.error.tag = "Error"

InitRetry ==
  \E n \in 0..MaxRetry, fails \in BOOLEAN :
    LET f == fetch(EmptyWorld, <<>>)
        r == retry(f.w, <<>>, n)
        W1 == subscribe(r.w, r.id, ObsSub(1))
    IN /\ heap = W1.heap
       /\ obs = [W1.obs EXCEPT ![1].on = r.id]
       /\ tm = W1.tm
       /\ objs = NoObjs
       /\ sc = [kind |-> "retry", f |-> f.id, r |-> r.id, n |-> n,
                fails |-> fails,
                attempts |-> Cardinality(InFlight(W1.tm.jobs, r.id)),
                term |-> FALSE, late |-> 0]
       /\ last = NoOp
       /\ ops = 0

\* the platform settles a fetcher call in flight
RetrySettle(id, o) ==
  /\ sc.fails => ~o.ok
  /\ \E job \in tm.jobs :
       /\ job.id = id
       /\ LET W == settled([World EXCEPT !.tm.jobs = @ \ {job}], job, o)
          IN /\ Commit(W)
             /\ sc' = [sc EXCEPT !.term = @ \/ Terminal(W.heap[sc.r].val)]
       /\ last' = [op |-> "settle", id |-> job.target, v |-> o,
                   old |-> NoValue, obsB |-> obs, valsB |-> <<>>,
                   dirty |-> FALSE]
  /\ UNCHANGED <<objs, ops>>

\* the platform runs the backoff timer that is due: attemptFetch again
FireRetry ==
  /\ Due /= {}
  /\ LET t == FirstDue
         W == attemptFetch([World EXCEPT !.tm.pend = @ \ {t}], t.cb.target,
                           t.cb.n, t.cb.attemptsLeft)
         calls == Cardinality(InFlight(W.tm.jobs \ tm.jobs, sc.r))
     IN /\ Commit(W)
        /\ sc' = [sc EXCEPT !.attempts = @ + calls,
                            !.late = IF sc.term THEN @ + calls ELSE @]
  /\ last' = [NoOp EXCEPT !.op = "fire", !.obsB = obs]
  /\ UNCHANGED <<objs, ops>>

NextRetry ==
  \/ \E id \in JobIds, o \in Outcomes : RetrySettle(id, o)
  \/ FireRetry
  \/ Tick

SpecRetry == InitRetry /\ [][NextRetry]_vars

\* C11: with a fetcher that always fails, the Fetch of retry(n) is in the
\* state {loading: false, data: undefined, error} once nothing is in
\* flight or scheduled for it, the fetcher has then been called exactly
\* n + 1 times for it (never more), and no call is made after that state
\* was first reached.
C11_RetryTermination ==
  sc.fails =>
    /\ sc.attempts <= sc.n + 1
    /\ sc.late = 0
    /\ (InFlight(tm.jobs, sc.r) = {} /\ tm.pend = {}) =>
         /\ Terminal(heap[sc.r].val)
         /\ sc.attempts = sc.n + 1

\* ------------------------------------------------------- fetch: cache
\* JSON.stringify(data) and JSON.parse(text) for a number
JSONstringify(data) == [json |-> data]
JSONparse(text) == text.json

\* a value in a condition: undefined and 0 are falsy
Truthy(v) == v /= NoValue /\ v /= 0

\* try { ... } catch (e) { }: whether an exception thrown inside is still
\* on its way after the statement
catchNothing(thrown) == thrown
catch(thrown) == FALSE

\* localStorage.setItem of the item and of its time stamp
setItem(W, data) ==
  IF W.tm.store.broken THEN [w |-> W, thrown |-> TRUE]
  ELSE [w |-> [W EXCEPT !.tm.store = [has |-> TRUE,
                                      data |-> JSONstringify(data),
                                      time |-> DateNow(W), broken |-> FALSE]],
        thrown |-> FALSE]

\* the subscriber cache registers on baseEffect, called with state
cacheMirror(W, cached, state) ==
  LET r == IF Truthy(state.data) /\ ~state.loading /\ state.error = NoError
           THEN setItem(W, state.data)
           ELSE [w |-> W, thrown |-> FALSE]
  IN IF catch(r.thrown) THEN [r.w EXCEPT !.tm.uncaught = TRUE]
     ELSE setFresh(r.w, cached, state)

\* cache(key, ttl) called on the Fetch base: cached = fetch(fetcher, deps),
\* then the read of the store and, on a hit, the early return
cache(W, base, deps, ttl) ==
  LET cached == fetch(W, deps)
      W1 == cached.w
      st == W1.tm.store
      thrown == st.broken
      hit == ~thrown /\ st.has /\ DateNow(W1) - st.time < ttl
  IN IF catch(thrown) THEN [w |-> [W1 EXCEPT !.tm.uncaught = TRUE],
                            id |-> cached.id]
     ELSE IF hit
          THEN [w |-> setFresh(W1, cached.id, Resolved(JSONparse(st.data))),
                id |-> cached.id]
          ELSE [w |-> subscribe(W1, base, CacheSub(cached.id)),
                id |-> cached.id]

\* ===================================================== SpecCache
\* f = fetch(fetcher); at some time c = f.cache(key, CacheTtl) followed by
\* c.subscribe(observer 1).  The store starts empty or with an entry
\* written now or CacheTtl ago.  sc.hit: the store held an entry younger
\* than CacheTtl at the call; sc.calls: the fetcher calls the call made.
CacheTtl == 2

InitCache ==
  \E entry \in {NoEntry} \cup
       {[has |-> TRUE, data |-> JSONstringify(d), time |-> t,
         broken |-> FALSE] : d \in Values, t \in {Epoch - CacheTtl, Epoch}} :
    LET W0 == [EmptyWorld EXCEPT !.tm.store = entry]
        f == fetch(W0, <<>>)
    IN /\ heap = f.w.heap
       /\ obs = f.w.obs
       /\ tm = f.w.tm
       /\ objs = NoObjs
       /\ sc = [kind |-> "cache", f |-> f.id, c |-> 0, hit |-> FALSE,
                cachedData |-> NoValue, calls |-> 0]
       /\ last = NoOp
       /\ ops = 0

\* c = f.cache(key, CacheTtl); c.subscribe(observer 1)
CacheCall ==
  /\ sc.c = 0
  /\ LET c == cache(World, sc.f, <<>>, CacheTtl)
         W1 == subscribe(c.w, c.id, ObsSub(1))
         young == tm.store.has /\ DateNow(World) - tm.store.time < CacheTtl
     IN /\ heap' = W1.heap
        /\ obs' = [W1.obs EXCEPT ![1].on = c.id]
        /\ tm' = W1.tm
        /\ sc' = [sc EXCEPT !.c = c.id, !.hit = young,
                            !.cachedData = IF young THEN tm.store.data.json
                                           ELSE NoValue,
                            !.calls = Cardinality(W1.tm.jobs \ tm.jobs)]
  /\ last' = [NoOp EXCEPT !.op = "cache"]
  /\ UNCHANGED <<objs, ops>>

\* the platform settles the fetcher call id with the outcome o
CacheSettle(id, o) ==
  /\ \E job \in tm.jobs :
       /\ job.id = id
       /\ Commit(settled([World EXCEPT !.tm.jobs = @ \ {job}], job, o))
       /\ last' = [op |-> "settle", id |-> job.target, v |-> o,
                   old |-> NoValue, obsB |-> obs, valsB |-> <<>>,
                   dirty |-> FALSE]
  /\ UNCHANGED <<objs, sc, ops>>

NextCache ==
  \/ CacheCall
  \/ \E id \in JobIds, o \in Outcomes : CacheSettle(id, o)
  \/ Tick

SpecCache == InitCache /\ [][NextCache]_vars

\* C21: when cache(key, ttl) finds an entry younger than ttl, the Fetch it
\* returns holds {data: cached value, loading: false}, the call has made
\* no fetcher call, and nothing the call started overwrites the value.
C21_CacheHit ==
  (sc.c /= 0 /\ sc.hit) =>
    /\ sc.calls = 0
    /\ heap[sc.c].val = Resolved(sc.cachedData)

\* C22: once cache(key, ttl) has been applied, every successful completion
\* of the Fetch it was applied to is written to the store with the time
\* of the completion, whether the call hit or missed and whatever the data.
C22_MirrorToStore ==
  (sc.c /= 0 /\ last.op = "settle" /\ last.id = sc.f /\ last.v.ok) =>
    /\ tm.store.has
    /\ tm.store.data = JSONstringify(last.v.data)
    /\ tm.store.time = DateNow(World)

\* ===================================================== SpecDerived
\* f = fetch(fetcher); f.subscribe(observer 1); then f.retry(n) or
\* f.refetch() is called once (sc.made lists the Fetch it returned) while
\* the fetcher calls settle and the backoff timers run.

\* refetch(): refetched = fetch(fetcher, deps); executeFetch(refetched)
refetch(W, deps) ==
  LET refetched == fetch(W, deps)
  IN [w |-> executeFetch(refetched.w, refetched.id), id |-> refetched.id]

\* the outcomes told apart here: resolved with 0, rejected with an Error
SomeOutcomes == {o \in Outcomes : o.data /= 1 /\ o.data /= 2 /\ (o.ok \/ o.reason.tag = "Error")}

InitDerived ==
  LET f == fetch(EmptyWorld, <<>>)
      W1 == subscribe(f.w, f.id, ObsSub(1))
  IN /\ heap = W1.heap
     /\ obs = [W1.obs EXCEPT ![1].on = f.id]
     /\ tm = W1.tm
     /\ objs = NoObjs
     /\ sc = [kind |-> "derived", f |-> f.id, made |-> <<>>]
     /\ last = NoOp
     /\ ops = 0

\* r = f.retry(n)
RetryCall(n) ==
  /\ sc.made = <<>>
  /\ LET r == retry(World, <<>>, n)
     IN /\ Commit(r.w)
        /\ sc' = [sc EXCEPT !.made = Append(@, r.id)]
  /\ last' = [op |-> "retry", id |-> sc.f, v |-> n, old |-> NoValue,
              obsB |-> obs, valsB |-> Vals(heap), dirty |-> FALSE]
  /\ ops' = ops + 1
  /\ UNCHANGED objs

\* r = f.refetch()
RefetchCall ==
  /\ sc.made = <<>>
  /\ LET r == refetch(World, <<>>)
     IN /\ Commit(r.w)
        /\ sc' = [sc EXCEPT !.made = Append(@, r.id)]
  /\ last' = [op |-> "refetch", id |-> sc.f, v |-> NoValue, old |-> NoValue,
              obsB |-> obs, valsB |-> Vals(heap), dirty |-> FALSE]
  /\ ops' = ops + 1
  /\ UNCHANGED objs

\* the platform settles the fetcher call id with the outcome o
DerivedSettle(id, o) ==
  /\ \E job \in tm.jobs :
       /\ job.id = id
       /\ Commit(settled([World EXCEPT !.tm.jobs = @ \ {job}], job, o))
       /\ last' = [op |-> "settle", id |-> job.target, v |-> o,
                   old |-> NoValue, obsB |-> obs, valsB |-> Vals(heap),
                   dirty |-> FALSE]
  /\ UNCHANGED <<objs, sc, ops>>

\* the platform runs the backoff timer that is due
DerivedFire ==
  /\ Due /= {}
  /\ LET t == FirstDue
     IN /\ Commit(attemptFetch([World EXCEPT !.tm.pend = @ \ {t}],
                               t.cb.target, t.cb.n, t.cb.attemptsLeft))
        /\ last' = [op |-> "fire", id |-> t.cb.target, v |-> NoValue,
                    old |-> NoValue, obsB |-> obs, valsB |-> Vals(heap),
                    dirty |-> FALSE]
  /\ UNCHANGED <<objs, sc, ops>>

NextDerived ==
  \/ \E n \in 0..MaxRetry : RetryCall(n)
  \/ RefetchCall
  \/ \E id \in JobIds, o \in SomeOutcomes : DerivedSettle(id, o)
  \/ DerivedFire
  \/ Tick

SpecDerived == InitDerived /\ [][NextDerived]_vars

\* the last step was f's own first fetch settling
OwnSettle == last.op = "settle" /\ last.id = sc.f

\* C23: retry(n) and refetch() return a Fetch that is not the one they
\* were called on, and neither the call nor any later attempt, timer or
\* completion on the returned Fetch changes the original's value or calls
\* the original's subscribers.
C23_OriginalUntouched ==
  /\ \A i \in DOMAIN sc.made : sc.made[i] /= sc.f
  /\ (last.op \in {"retry", "refetch", "settle", "fire"} /\ ~OwnSettle) =>
       /\ heap[sc.f].val = last.valsB[sc.f]
       /\ Calls(1) = 0

\* a retry on the returned Fetch has run its backoff timer and failed for
\* good while the original is still loading and its observer was not called
C23_Witness ==
  /\ Len(sc.made) = 1
  /\ last.op = "settle" /\ last.id = sc.made[1] /\ ~last.v.ok
  /\ tm.now > 0
  /\ Terminal(heap[sc.made[1]].val)
  /\ heap[sc.f].val = Loading /\ obs[1].n = 0

\* ===================================================== SpecCompose
\* c = signal(c0); r = compose(p1, ..., pn)(c) for the plugins
\* loggerPlugin (observer k stands for console.log) and
\* debouncePlugin(DebounceMs); c is set from the top level while time passes.
LoggerPlugin(k) == [p |-> "logger", k |-> k]
DebouncePlugin(ms) == [p |-> "debounce", k |-> ms]
Plugins == {LoggerPlugin(k) : k \in Obs} \cup {DebouncePlugin(DebounceMs)}

\* plugin(signal): the logger subscribes and returns the signal it was
\* given, the debounce returns debounce(ms, signal)
applyPlugin(W, plugin, id) ==
  IF plugin.p = "logger"
  THEN [w |-> subscribe(W, id, ObsSub(plugin.k)), id |-> id]
  ELSE debounce(W, plugin.k, id)

\* plugins.reduce((acc, plugin) => plugin(acc), signal)
RECURSIVE reducePlugins(_, _, _)
reducePlugins(W, plugins, acc) ==
  IF plugins = <<>> THEN [w |-> W, id |-> acc]
  ELSE LET next == applyPlugin(W, Head(plugins), acc)
       IN reducePlugins(next.w, Tail(plugins), next.id)

\* compose(...plugins)(signal)
composeFromRight(W, plugins, id) ==
  reducePlugins(W, [i \in DOMAIN plugins |-> plugins[Len(plugins) + 1 - i]],
                id)
composePlugins(W, plugins, id) == reducePlugins(W, plugins, id)

\* the lists of at most MaxLen plugins with no logger twice and at most
\* one debounce
PluginLists ==
  {q \in UNION {[1..n -> Plugins] : n \in 0..MaxLen} :
     \A i, j \in DOMAIN q : i /= j => q[i] /= q[j]}

InitCompose ==
  \E c0 \in Values, plugins \in PluginLists :
    LET c == signal(EmptyWorld, c0)
        r == composePlugins(c.w, plugins, c.id)
    IN /\ heap = r.w.heap
       /\ obs = r.w.obs
       /\ tm = r.w.tm
       /\ objs = NoObjs
       /\ sc = [kind |-> "compose", c |-> c.id, r |-> r.id,
                plugins |-> plugins]
       /\ last = NoOp
       /\ ops = 0

\* c._set(v) from the top level
PluginEmit(v) ==
  /\ ops < MaxOps
  /\ Commit(set(World, sc.c, v))
  /\ last' = [op |-> "emit", id |-> sc.c, v |-> v, old |-> heap[sc.c].val,
              obsB |-> obs, valsB |-> Vals(heap), dirty |-> FALSE]
  /\ ops' = ops + 1
  /\ UNCHANGED <<objs, sc>>

\* the platform runs the debounce timer that is due
PluginFire ==
  /\ Due /= {}
  /\ LET t == FirstDue
     IN /\ Commit(set([World EXCEPT !.tm.pend = @ \ {t}], t.cb.target,
                      t.cb.v))
        /\ last' = [op |-> "fire", id |-> t.cb.target, v |-> t.cb.v,
                    old |-> heap[t.cb.target].val,
                    obsB |-> obs, valsB |-> Vals(heap), dirty |-> FALSE]
  /\ UNCHANGED <<objs, sc, ops>>

NextCompose ==
  \/ \E v \in Values : PluginEmit(v)
  \/ PluginFire
  \/ Tick

SpecCompose == InitCompose /\ [][NextCompose]_vars

\* the positions of the debounce and of the logger k in the plugin list
DebounceAt == {i \in DOMAIN sc.plugins : sc.plugins[i].p = "debounce"}
LoggerAt(k) == {i \in DOMAIN sc.plugins : sc.plugins[i] = LoggerPlugin(k)}
\* the logger k was applied to the base container / to the debounced one
OnRaw(k) ==
  LoggerAt(k) /= {} /\ \A i \in LoggerAt(k), d \in DebounceAt : i < d
OnDebounced(k) ==
  LoggerAt(k) /= {} /\ \E i \in LoggerAt(k), d \in DebounceAt : d < i

\* C24: compose applies the plugins left to right, each once, to the
\* previous one's output: without plugins (or with loggers only) the result
\* is c itself; a logger placed before the debounce is called once for
\* every change of c and with its value, a logger placed after it is
\* called only when the debounce timer delivers, with the debounced value
\* which is then the result's value.
C24_ComposeOrder ==
  /\ DebounceAt = {} <=> sc.r = sc.c
  /\ (last.op = "emit" /\ last.v /= last.old) =>
       \A k \in Obs :
         /\ OnRaw(k) => Calls(k) = 1 /\ obs[k].got = last.v
         /\ ~OnRaw(k) => Calls(k) = 0
  /\ (last.op = "fire" /\ last.v /= last.old) =>
       /\ last.id = sc.r /\ heap[sc.r].val = last.v
       /\ \A k \in Obs :
            /\ OnDebounced(k) => Calls(k) = 1 /\ obs[k].got = last.v
            /\ ~OnDebounced(k) => Calls(k) = 0

\* compose(debounce, logger 1): c was set at least twice before the timer
\* delivers the value c then holds to the logger, once
C24_Witness ==
  /\ sc.kind = "compose"
  /\ sc.plugins = <<DebouncePlugin(DebounceMs), LoggerPlugin(1)>>
  /\ last.op = "fire" /\ last.v /= last.old
  /\ ops >= 2
  /\ Calls(1) = 1 /\ obs[1].got = heap[sc.c].val

\* ===================================================== SpecCombine
\* m1 = machine(s1, r1); m2 = machine(s2, r2); combined = combine(m1, m2);
\* observer 1 subscribes to combined, observer 2 to m2.
\* combine(machine1, machine2): a subscriber Set of its own and notify
\* subscribed to both machines
combineFirstOnly(W, machine1, machine2) ==
  LET c == [w |-> [W EXCEPT !.heap = Append(@, [val |-> NoValue,
                                                 subs |-> <<>>])],
            id |-> Len(W.heap) + 1]
  IN [w |-> subscribe(c.w, machine1, CombineSub(machine1, machine2, c.id)),
      id |-> c.id]
combine(W, machine1, machine2) ==
  LET c == [w |-> [W EXCEPT !.heap = Append(@, [val |-> NoValue,
                                                 subs |-> <<>>])],
            id |-> Len(W.heap) + 1]
      W1 == subscribe(c.w, machine1, CombineSub(machine1, machine2, c.id))
  IN [w |-> subscribe(W1, machine2, CombineSub(machine1, machine2, c.id)),
      id |-> c.id]

\* get state(): { m1: machine1.state, m2: machine2.state }
combinedState(W, machine1, machine2) ==
  [m1 |-> W.heap[machine1].val, m2 |-> W.heap[machine2].val]

\* the machine send passes the action to: action.type === 'm1'
sendTargetFirst(type, machine1, machine2) == machine1
sendTarget(type, machine1, machine2) ==
  IF type = "m1" THEN machine1 ELSE machine2

\* combined.send(action)
combinedSend(W, machine1, r1, machine2, r2, action) ==
  LET m == sendTarget(action.type, machine1, machine2)
  IN machineSend(W, m, IF m = machine1 THEN r1 ELSE r2, action.action)

CombinedActions == [type : {"m1", "m2"}, action : Actions]

InitCombine ==
  \E s1, s2 \in Values, r1, r2 \in ReducerNames :
    LET a == machine(EmptyWorld, s1)
        b == machine(a.w, s2)
        c == combine(b.w, a.id, b.id)
        W1 == subscribe(c.w, c.id, ObsSub(1))
        W2 == subscribe(W1, b.id, ObsSub(2))
    IN /\ heap = W2.heap
       /\ obs = [W2.obs EXCEPT ![1].on = c.id, ![2].on = b.id]
       /\ tm = W2.tm
       /\ objs = NoObjs
       /\ sc = [kind |-> "combine", m1 |-> a.id, m2 |-> b.id, c |-> c.id,
                r1 |-> r1, r2 |-> r2, s1 |-> s1, s2 |-> s2, sent |-> <<>>]
       /\ last = NoOp
       /\ ops = 0

\* combined.send(action) from the top level
CombinedSend(action) ==
  /\ ops < MaxOps
  /\ Commit(combinedSend(World, sc.m1, sc.r1, sc.m2, sc.r2, action))
  /\ last' = [op |-> "send", id |-> sc.c, v |-> action, old |-> NoValue,
              obsB |-> obs, valsB |-> Vals(heap), dirty |-> FALSE]
  /\ sc' = [sc EXCEPT !.sent = Append(@, action)]
  /\ ops' = ops + 1
  /\ UNCHANGED objs

NextCombine == \E a \in CombinedActions : CombinedSend(a)

SpecCombine == InitCombine /\ [][NextCombine]_vars

\* the actions sent with the given type, in the order sent
RECURSIVE ActionsOf(_, _)
ActionsOf(type, sent) ==
  IF sent = <<>> THEN <<>>
  ELSE IF Head(sent).type = type
       THEN <<Head(sent).action>> \o ActionsOf(type, Tail(sent))
       ELSE ActionsOf(type, Tail(sent))

\* C25: a send of type m1 applies the action to m1 only and leaves m2's
\* state (and m2's subscribers) alone, and the other way round; after any
\* sends combined.state is {m1: m1.state, m2: m2.state}, each the fold of
\* its reducer over the actions sent to it.
C25_CombineRouting ==
  sc.kind = "combine" =>
    /\ last.op = "send" /\ last.v.type = "m1" =>
         /\ heap[sc.m1].val = reducer(sc.r1, last.valsB[sc.m1], last.v.action)
         /\ heap[sc.m2].val = last.valsB[sc.m2]
         /\ Calls(2) = 0
    /\ last.op = "send" /\ last.v.type = "m2" =>
         /\ heap[sc.m2].val = reducer(sc.r2, last.valsB[sc.m2], last.v.action)
         /\ heap[sc.m1].val = last.valsB[sc.m1]
         /\ Calls(2) = (IF heap[sc.m2].val /= last.valsB[sc.m2] THEN 1 ELSE 0)
    /\ combinedState(World, sc.m1, sc.m2) =
         [m1 |-> FoldLeft(sc.r1, sc.s1, ActionsOf("m1", sc.sent)),
          m2 |-> FoldLeft(sc.r2, sc.s2, ActionsOf("m2", sc.sent))]
    /\ (last.op = "send" /\ Calls(1) > 0) =>
         obs[1].got = combinedState(World, sc.m1, sc.m2)

\* sends of both types have changed both machines, the latest one m1 only
C25_Witness ==
  /\ sc.kind = "combine"
  /\ last.op = "send" /\ last.v.type = "m1"
  /\ heap[sc.m1].val /= last.valsB[sc.m1]
  /\ heap[sc.m1].val /= sc.s1 /\ heap[sc.m2].val /= sc.s2
  /\ ActionsOf("m2", sc.sent) /= <<>>
  /\ Calls(1) = 1

\* ===================================================== SpecState
\* w = state(s0, v0) with observer 1 subscribed; get, put and modify are
\* called on w, and put on the wrapper r that the latest put or modify
\* returned.
\* undefined
Undefined == NoValue

\* state(initialState, initialValue): baseEffect = effect(initialValue) and
\* the closure variable currentState, a cell of tm.cell
state(W, initialState, initialValue) ==
  LET baseEffect == effect(W, initialValue)
  IN [w |-> [baseEffect.w EXCEPT !.tm.cell = Append(@, initialState)],
      id |-> baseEffect.id,
      currentState |-> Len(W.tm.cell) + 1]

\* get(): state(currentState, currentState)
get(W, inst) ==
  state(W, W.tm.cell[inst.currentState], W.tm.cell[inst.currentState])

\* put(newState): putState = state(newState, undefined);
\* currentState = newState; return putState
putNoAssign(W, inst, newState) == state(W, newState, Undefined)
put(W, inst, newState) ==
  LET putState == state(W, newState, Undefined)
  IN [putState EXCEPT !.w.tm.cell[inst.currentState] = newState]

\* modify(f): put(f(currentState))
modify(W, inst, f) == put(W, inst, ApplyFn(f, W.tm.cell[inst.currentState]))

\* the handle of a wrapper
Handle(r) == [id |-> r.id, currentState |-> r.currentState]
NoHandle == [id |-> 0, currentState |-> 0]

\* x.get().value()
getValue(W, inst) == LET g == get(W, inst) IN g.w.heap[g.id].val

InitState ==
  \E s0, v0 \in Values :
    LET w == state(EmptyWorld, s0, v0)
        W1 == subscribe(w.w, w.id, ObsSub(1))
    IN /\ heap = W1.heap
       /\ obs = [W1.obs EXCEPT ![1].on = w.id]
       /\ tm = W1.tm
       /\ objs = NoObjs
       /\ sc = [kind |-> "state", w |-> Handle(w), r |-> NoHandle,
                g |-> NoHandle, v0 |-> v0, s0 |-> s0]
       /\ last = NoOp
       /\ ops = 0

StateStep(op, v, r, field) ==
  /\ Commit(r.w)
  /\ last' = [op |-> op, id |-> sc.w.id, v |-> v,
              old |-> tm.cell[sc.w.currentState],
              obsB |-> obs, valsB |-> Vals(heap), dirty |-> FALSE]
  /\ sc' = [sc EXCEPT ![field] = Handle(r)]
  /\ ops' = ops + 1
  /\ UNCHANGED objs

\* r = w.put(s)
StatePut(s) ==
  /\ ops < MaxOps
  /\ StateStep("put", s, put(World, sc.w, s), "r")

\* r = w.modify(f)
StateModify(f) ==
  /\ ops < MaxOps
  /\ StateStep("modify", f, modify(World, sc.w, f), "r")

\* g = w.get()
StateGet ==
  /\ ops < MaxOps
  /\ StateStep("get", NoValue, get(World, sc.w), "g")

\* r.put(s) on the wrapper an earlier put or modify returned
StatePutOnResult(s) ==
  /\ ops < MaxOps
  /\ sc.r /= NoHandle
  /\ StateStep("putr", s, put(World, sc.r, s), "g")

NextState ==
  \/ \E s \in Values : StatePut(s)
  \/ \E f \in FnNames : StateModify(f)
  \/ StateGet
  \/ \E s \in Values : StatePutOnResult(s)

SpecState == InitState /\ [][NextState]_vars

\* C26: after w.put(s), w.get().value() is s and the wrapper put returned
\* is seeded with s; after w.modify(f), w.get() yields f(the state before);
\* w.get() returns a wrapper whose value is the state; put and modify never
\* change w.value() and never call w's subscribers; a put on the returned
\* wrapper does not change w.get().
C26_StateThreading ==
  sc.kind = "state" =>
    /\ heap[sc.w.id].val = sc.v0 /\ obs[1].n = 0
    /\ last.op = "put" =>
         /\ getValue(World, sc.w) = last.v
         /\ getValue(World, sc.r) = last.v
    /\ last.op = "modify" =>
         /\ getValue(World, sc.w) = ApplyFn(last.v, last.old)
         /\ getValue(World, sc.r) = ApplyFn(last.v, last.old)
    /\ last.op = "get" =>
         /\ heap[sc.g.id].val = last.old
         /\ getValue(World, sc.w) = last.old
    /\ last.op = "putr" =>
         /\ getValue(World, sc.w) = last.old
         /\ getValue(World, sc.r) = last.v

\* w's state was replaced by put or modify, and a later put on the
\* returned wrapper gave that wrapper another state than w's
C26_Witness ==
  /\ sc.kind = "state"
  /\ last.op = "putr"
  /\ getValue(World, sc.r) /= getValue(World, sc.w)
  /\ getValue(World, sc.w) /= sc.s0
  /\ ops = 3

\* ===================================================== SpecFilter
\* c = signal(c0); out = filterPlugin(predicate)(c); observer 1 subscribes
\* to out; c is set from the top level.
\* filterPlugin(predicate)(signal): signal.map(value => ...)
filterPlugin(W, pred, id) ==
  LET d == signal(W, filterFn(pred, W.heap[id].val, W.heap[id].val))
  IN [w |-> subscribe(d.w, id, FilterSub(pred, id, d.id)), id |-> d.id]

InitFilter ==
  \E c0 \in Values, pred \in PredNames :
    LET c == signal(EmptyWorld, c0)
        out == filterPlugin(c.w, pred, c.id)
        W1 == subscribe(out.w, out.id, ObsSub(1))
    IN /\ heap = W1.heap
       /\ obs = [W1.obs EXCEPT ![1].on = out.id]
       /\ tm = W1.tm
       /\ objs = NoObjs
       /\ sc = [kind |-> "filter", c |-> c.id, out |-> out.id, pred |-> pred]
       /\ last = NoOp
       /\ ops = 0

\* c._set(v) from the top level
FilterSet(v) ==
  /\ ops < MaxOps + 2
  /\ Commit(set(World, sc.c, v))
  /\ last' = [op |-> "set", id |-> sc.c, v |-> v, old |-> heap[sc.c].val,
              obsB |-> obs, valsB |-> Vals(heap), dirty |-> FALSE]
  /\ ops' = ops + 1
  /\ UNCHANGED <<objs, sc>>

NextFilter == \E v \in Values : FilterSet(v)

SpecFilter == InitFilter /\ [][NextFilter]_vars

\* C27: when the source is set to a value that fails the predicate the
\* output keeps its previous value and its subscribers are not called; a
\* value that passes the predicate becomes the output's value.
C27_FilterBlocks ==
  (sc.kind = "filter" /\ last.op = "set") =>
    IF predicate(sc.pred, last.v)
    THEN heap[sc.out].val = last.v
    ELSE heap[sc.out].val = last.valsB[sc.out] /\ Calls(1) = 0

\* ===================================================== SpecStorage
\* One of three users of the store: f = fetch(fetcher) and later
\* r = f.cache(key, CacheTtl); c = signal(c0) and later
\* r = cachePlugin(key, CacheTtl)(c) or r = persistPlugin(key)(c).
\* Observer 1 subscribes to r after the call.  The store starts empty or
\* with an entry, and at any time it may start or stop throwing on every
\* getItem and setItem.
\* localStorage.setItem of the persisted item (it has no time stamp)
persistItem(W, data) ==
  IF W.tm.store.broken THEN [w |-> W, thrown |-> TRUE]
  ELSE [w |-> [W EXCEPT !.tm.store.has = TRUE,
                        !.tm.store.data = JSONstringify(data)],
        thrown |-> FALSE]

\* the subscriber of cachePlugin and of persistPlugin, called with value
storeWrite(W, plugin, a) ==
  LET r == IF plugin = "cache" THEN setItem(W, a) ELSE persistItem(W, a)
  IN IF catch(r.thrown) THEN [r.w EXCEPT !.tm.uncaught = TRUE] ELSE r.w

\* signal.map(() => v)
mapConst(W, id, v) ==
  LET d == signal(W, v)
  IN [w |-> subscribe(d.w, id, ConstSub(v, d.id)), id |-> d.id]

\* cachePlugin(key, ttl)(signal)
cachePlugin(W, ttl, id) ==
  LET st == W.tm.store
      thrown == st.broken
      hit == ~thrown /\ st.has /\ DateNow(W) - st.time < ttl
  IN IF catch(thrown) THEN [w |-> [W EXCEPT !.tm.uncaught = TRUE], id |-> id]
     ELSE IF hit THEN mapConst(W, id, JSONparse(st.data))
          ELSE [w |-> subscribe(W, id, StoreSub("cache")), id |-> id]

\* persistPlugin(key)(signal)
persistPlugin(W, id) ==
  LET st == W.tm.store
      thrown == st.broken
  IN IF catch(thrown) THEN [w |-> [W EXCEPT !.tm.uncaught = TRUE], id |-> id]
     ELSE IF ~thrown /\ st.has
          THEN LET persistedSignal == mapConst(W, id, JSONparse(st.data))
               IN [w |-> subscribe(persistedSignal.w, persistedSignal.id,
                                   StoreSub("persist")),
                   id |-> persistedSignal.id]
          ELSE [w |-> subscribe(W, id, StoreSub("persist")), id |-> id]

StoreUsers == {"fetch", "cachePlugin", "persistPlugin"}

\* the call that uses the store, on the object base
useStore(W, user, base) ==
  CASE user = "fetch" -> cache(W, base, <<>>, CacheTtl)
    [] user = "cachePlugin" -> cachePlugin(W, CacheTtl, base)
    [] user = "persistPlugin" -> persistPlugin(W, base)

\* the fetcher's outcomes used here: falsy and truthy data, an Error
StoreOutcomes ==
  {o \in Outcomes : IF o.ok THEN o.data \in {0, 1} ELSE o.reason.tag = "Error"}

InitStorage ==
  \E user \in StoreUsers, c0 \in Values,
     entry \in {NoEntry} \cup
       {[has |-> TRUE, data |-> JSONstringify(d), time |-> t,
         broken |-> FALSE] : d \in {0, 1}, t \in {Epoch - CacheTtl, Epoch}} :
    LET W0 == [EmptyWorld EXCEPT !.tm.store = entry]
        base == IF user = "fetch" THEN fetch(W0, <<>>) ELSE signal(W0, c0)
    IN /\ heap = base.w.heap
       /\ obs = base.w.obs
       /\ tm = base.w.tm
       /\ objs = NoObjs
       /\ sc = [kind |-> "storage", user |-> user, base |-> base.id,
                r |-> 0, threw |-> FALSE, asNoEntry |-> TRUE]
       /\ last = NoOp
       /\ ops = 0

\* the store starts or stops throwing
StoreFail ==
  /\ tm' = [tm EXCEPT !.store.broken = ~@]
  /\ last' = [NoOp EXCEPT !.op = "fail"]
  /\ UNCHANGED <<heap, obs, objs, sc, ops>>

\* r = the call on the base object; r.subscribe(observer 1).  sc.threw: the
\* store threw during the call; sc.asNoEntry: the call left the same
\* objects as it leaves with an empty store that works
StoreCall ==
  /\ sc.r = 0
  /\ LET r == useStore(World, sc.user, sc.base)
         e == useStore([World EXCEPT !.tm.store = NoEntry], sc.user, sc.base)
         W1 == subscribe(r.w, r.id, ObsSub(1))
     IN /\ heap' = W1.heap
        /\ obs' = [W1.obs EXCEPT ![1].on = r.id]
        /\ tm' = W1.tm
        /\ sc' = [sc EXCEPT !.r = r.id, !.threw = tm.store.broken,
                            !.asNoEntry = /\ r.id = e.id
                                          /\ r.w.heap = e.w.heap
                                          /\ r.w.obs = e.w.obs
                                          /\ r.w.tm.jobs = e.w.tm.jobs
                                          /\ r.w.tm.pend = e.w.tm.pend]
  /\ last' = [NoOp EXCEPT !.op = "call"]
  /\ UNCHANGED <<objs, ops>>

\* c._set(v) from the top level
StoreSet(v) ==
  /\ sc.user /= "fetch"
  /\ ops < MaxOps
  /\ Commit(set(World, sc.base, v))
  /\ last' = [op |-> "set", id |-> sc.base, v |-> v, old |-> heap[sc.base].val,
              obsB |-> obs, valsB |-> Vals(heap), dirty |-> tm.store.broken]
  /\ ops' = ops + 1
  /\ UNCHANGED <<objs, sc>>

\* the platform settles the fetcher call id with the outcome o
StoreSettle(id, o) ==
  /\ \E job \in tm.jobs :
       /\ job.id = id
       /\ Commit(settled([World EXCEPT !.tm.jobs = @ \ {job}], job, o))
       /\ last' = [op |-> "settle", id |-> job.target, v |-> o,
                   old |-> NoValue, obsB |-> obs, valsB |-> Vals(heap),
                   dirty |-> tm.store.broken]
  /\ UNCHANGED <<objs, sc, ops>>

NextStorage ==
  \/ StoreFail
  \/ StoreCall
  \/ \E v \in Values : StoreSet(v)
  \/ \E id \in JobIds, o \in StoreOutcomes : StoreSettle(id, o)
  \/ Tick

SpecStorage == InitStorage /\ [][NextStorage]_vars

\* the state the Fetch takes on the outcome o
StateOf(o) == IF o.ok THEN Resolved(o.data) ELSE Rejected(o.reason)

\* C28: a store that throws is never fatal.  No exception of getItem or
\* setItem leaves Fetch.cache, cachePlugin or persistPlugin or one of their
\* subscribers; a call during which the store threw leaves what it leaves
\* with an empty store; and values keep arriving while the store throws:
\* a plugin that returned the signal itself passes every change to the
\* subscriber, and the cached Fetch takes every state of the Fetch it was
\* derived from.
C28_StorageNeverFatal ==
  sc.kind = "storage" =>
    /\ ~tm.uncaught
    /\ sc.threw => sc.asNoEntry
    /\ (last.op = "set" /\ last.v /= last.old /\ sc.r = sc.base) =>
         Calls(1) = 1 /\ obs[1].got = last.v
    /\ (last.op = "settle" /\ last.id = sc.base /\ sc.r /= 0 /\ sc.threw) =>
         /\ heap[sc.r].val = StateOf(last.v)
         /\ Calls(1) = 1 /\ obs[1].got = StateOf(last.v)

\* the store threw during cachePlugin's read and throws again when the
\* subscriber writes: the change still reaches the observer
C28_Witness ==
  /\ sc.kind = "storage" /\ sc.user = "cachePlugin"
  /\ sc.threw
  /\ last.op = "set" /\ last.dirty /\ last.v /= last.old
  /\ Calls(1) = 1

\* ===================================================== SpecThrottle
\* source = time(s0); throttled = throttle(ThrottleMs, source); observer 1
\* subscribes to throttled; the source is set from the top level while
\* time passes.  sc.deliveredAt: the time of the latest emission that was
\* let through (-1: none yet).
ThrottleMs == 2

\* throttle(ms, effect): throttled = time(effect.value()), the closure
\* variable lastExecution = 0 and the gating subscriber
throttle(W, ms, id) ==
  LET throttled == time(W, W.heap[id].val)
      W1 == [throttled.w EXCEPT !.tm.cell = Append(@, 0)]
  IN [w |-> subscribe(W1, id,
                      ThrottleSub(ms, throttled.id, Len(W1.tm.cell))),
      id |-> throttled.id]

InitThrottle ==
  \E s0 \in Values :
    LET source == time(EmptyWorld, s0)
        throttled == throttle(source.w, ThrottleMs, source.id)
        W1 == subscribe(throttled.w, throttled.id, ObsSub(1))
    IN /\ heap = W1.heap
       /\ obs = [W1.obs EXCEPT ![1].on = throttled.id]
       /\ tm = W1.tm
       /\ objs = NoObjs
       /\ sc = [kind |-> "throttle", source |-> source.id,
                throttled |-> throttled.id, deliveredAt |-> -1,
                dropped |-> 0]
       /\ last = NoOp
       /\ ops = 0

\* whether an emission now falls outside the window of the latest
\* delivered one
Open == sc.deliveredAt = -1 \/ tm.now - sc.deliveredAt >= ThrottleMs

\* source._set(v) from the top level
ThrottleEmit(v) ==
  /\ ops < MaxOps + 1
  /\ Commit(set(World, sc.source, v))
  /\ last' = [op |-> "emit", id |-> sc.source, v |-> v,
              old |-> heap[sc.source].val,
              obsB |-> obs, valsB |-> Vals(heap), dirty |-> Open]
  /\ sc' = IF v = heap[sc.source].val THEN sc
           ELSE IF Open THEN [sc EXCEPT !.deliveredAt = tm.now]
           ELSE [sc EXCEPT !.dropped = @ + 1]
  /\ ops' = ops + 1
  /\ UNCHANGED objs

NextThrottle ==
  \/ \E v \in Values : ThrottleEmit(v)
  \/ Tick

SpecThrottle == InitThrottle /\ [][NextThrottle]_vars

\* C29: an emission of the source reaches the output only if at least
\* ThrottleMs have passed since the emission delivered before it, the first
\* one always; an emission inside the window leaves the output and its
\* subscribers alone and is not queued: throttle starts no timer, so
\* nothing delivers it later.
C29_Throttle ==
  sc.kind = "throttle" =>
    /\ tm.pend = {}
    /\ (last.op = "emit" /\ last.v /= last.old) =>
         IF last.dirty
         THEN /\ heap[sc.throttled].val = last.v
              /\ Calls(1) = (IF last.v /= last.valsB[sc.throttled]
                             THEN 1 ELSE 0)
         ELSE /\ heap[sc.throttled].val = last.valsB[sc.throttled]
              /\ Calls(1) = 0

\* an emission was dropped inside the window, the window has passed and
\* the output still holds the older value
C29_Witness ==
  /\ sc.kind = "throttle"
  /\ sc.dropped > 0
  /\ sc.deliveredAt >= 0
  /\ tm.now - sc.deliveredAt > ThrottleMs
  /\ heap[sc.throttled].val /= heap[sc.source].val

\* ===================================================== SpecTicks
\* t1 = time(v0) for a number, a string or an object v0;
\* iv = t1.interval(IntervalMs); observers subscribe to iv one after the
\* other while the interval's timer runs.
\* the values by typeof: x is the number, the string's text or the
\* object's content, tick the _tick field (0: the object has none)
Number(x) == [type |-> "number", x |-> x, tick |-> 0]
String(x) == [type |-> "string", x |-> x, tick |-> 0]
Object(x) == [type |-> "object", x |-> x, tick |-> 0]
TypedValues ==
  {Number(x) : x \in Values} \cup {String(x) : x \in Values}
    \cup {Object(x) : x \in Values}

\* the value the tick callback hands to _set: currentValue + tickCount *
\* 0.000001, currentValue + '' (the same string) or
\* {...currentValue, _tick: tickCount}
tickValueOf(currentValue, tickCount) ==
  CASE currentValue.type = "number" ->
         [currentValue EXCEPT !.x = TickValue(@, tickCount)]
    [] currentValue.type = "string" -> currentValue
    [] currentValue.type = "object" -> [currentValue EXCEPT !.tick = tickCount]

\* intervalTime._set(v): numbers and strings are compared by value, the
\* object literal is a new reference
setByType(W, id, v) ==
  IF v.type = "object" THEN setFresh(W, id, v) ELSE set(W, id, v)

\* one run of the setInterval callback
tickByType(W, cb) ==
  LET W1 == [W EXCEPT !.tm.cell[TickCount(cb.c)] = @ + 1]
  IN setByType(W1, cb.target,
               tickValueOf(W1.heap[cb.base].val, W1.tm.cell[TickCount(cb.c)]))

InitTicks ==
  \E v0 \in TypedValues :
    LET t1 == time(EmptyWorld, v0)
        iv == interval(t1.w, IntervalMs, t1.id)
    IN /\ heap = iv.w.heap
       /\ obs = iv.w.obs
       /\ tm = iv.w.tm
       /\ objs = NoObjs
       /\ sc = [kind |-> "ticks", t1 |-> t1.id, iv |-> iv.id, c |-> iv.c,
                v0 |-> v0, ticks |-> 0]
       /\ last = NoOp
       /\ ops = 0

\* the platform runs the interval callback that is due and arms it again
FireTickByType ==
  /\ Due /= {}
  /\ LET t == FirstDue
         W1 == [World EXCEPT !.tm.pend =
                  (@ \ {t}) \cup {[t EXCEPT !.due = @ + t.cb.ms]}]
     IN Commit(tickByType(W1, t.cb))
  /\ last' = [NoOp EXCEPT !.op = "firetick", !.obsB = obs]
  /\ sc' = [sc EXCEPT !.ticks = @ + 1]
  /\ UNCHANGED <<objs, ops>>

NextTicks ==
  \/ \E k \in Obs : IvSubscribe(k)
  \/ FireTickByType
  \/ Tick

SpecTicks == InitTicks /\ [][NextTicks]_vars

\* C30: while the interval has a subscriber, every run of its timer calls
\* every subscriber once, whether the value is a number, a string or an
\* object.
C30_TickNotifies ==
  (sc.kind = "ticks" /\ last.op = "firetick") =>
    \A k \in On(sc.iv) : Calls(k) = 1

\* ===================================================== SpecRace
\* d1 = effect(a); d2 = effect(b); f = fetch(fetcher, [d1, d2]);
\* f.subscribe(observer 1).  The dependencies are set from the top level
\* and the fetcher calls settle in any order.  sc.emissions counts the
\* changes of a dependency, sc.log lists the settled calls in the order
\* they settled, each with its handle and its outcome.
InitRace ==
  \E a, b \in Values :
    LET d1 == effect(EmptyWorld, a)
        d2 == effect(d1.w, b)
        f == fetch(d2.w, <<d1.id, d2.id>>)
        W1 == subscribe(f.w, f.id, ObsSub(1))
    IN /\ heap = W1.heap
       /\ obs = [W1.obs EXCEPT ![1].on = f.id]
       /\ tm = W1.tm
       /\ objs = NoObjs
       /\ sc = [kind |-> "race", deps |-> <<d1.id, d2.id>>, f |-> f.id,
                emissions |-> 0, log |-> <<>>]
       /\ last = NoOp
       /\ ops = 0

\* deps[i]._set(v) from the top level
RaceSetDep(i, v) ==
  /\ ops < MaxOps - 1
  /\ Commit(set(World, sc.deps[i], v))
  /\ last' = [op |-> "dep", id |-> sc.deps[i], v |-> v,
              old |-> heap[sc.deps[i]].val,
              obsB |-> obs, valsB |-> Vals(heap), dirty |-> FALSE]
  /\ sc' = IF v /= heap[sc.deps[i]].val
           THEN [sc EXCEPT !.emissions = @ + 1] ELSE sc
  /\ ops' = ops + 1
  /\ UNCHANGED objs

\* the platform settles the fetcher call id with the outcome o
RaceSettle(id, o) ==
  /\ \E job \in tm.jobs :
       /\ job.id = id
       /\ Commit(settled([World EXCEPT !.tm.jobs = @ \ {job}], job, o))
       /\ last' = [op |-> "settle", id |-> job.target, v |-> o,
                   old |-> NoValue, obsB |-> obs, valsB |-> Vals(heap),
                   dirty |-> FALSE]
  /\ sc' = [sc EXCEPT !.log = Append(@, [id |-> id, o |-> o])]
  /\ UNCHANGED <<objs, ops>>

NextRace ==
  \/ \E i \in 1..2, v \in Values : RaceSetDep(i, v)
  \/ \E id \in JobIds, o \in StoreOutcomes : RaceSettle(id, o)

SpecRace == InitRace /\ [][NextRace]_vars

\* C31: with several cycles of one Fetch in flight, each settling call
\* writes its outcome, so once all have settled the state is the outcome
\* of the call that settled last, whichever was issued last.
C31_LastSettledWins ==
  (sc.kind = "race" /\ sc.log /= <<>> /\ tm.jobs = {}) =>
    heap[sc.f].val = StateOf(sc.log[Len(sc.log)].o)

\* two cycles overlapped; the one issued later resolved first and the one
\* issued first then resolved with another value, which is the state
C31_Witness ==
  /\ sc.kind = "race" /\ tm.jobs = {} /\ Len(sc.log) = 2
  /\ sc.log[2].id < sc.log[1].id
  /\ sc.log[1].o.ok /\ sc.log[2].o.ok
  /\ sc.log[1].o.data /= sc.log[2].o.data
  /\ heap[sc.f].val = Resolved(sc.log[2].o.data)

\* C32: the fetcher is called once at construction and once for every
\* change of a dependency and at no other time (no timer is ever set, a
\* rejected call starts nothing), and every call writes into the Fetch
\* that fetch() returned.
C32_FetcherCalls ==
  sc.kind = "race" =>
    /\ tm.next - 1 = 1 + sc.emissions
    /\ Cardinality(tm.jobs) = 1 + sc.emissions - Len(sc.log)
    /\ tm.pend = {}
    /\ \A job \in tm.jobs : job.target = sc.f /\ job.kind = "executeFetch"
    /\ Len(heap) = 3
    /\ last.op = "settle" => last.id = sc.f /\ heap[sc.f].val = StateOf(last.v)

\* the dependencies have changed twice, three calls were made in all and
\* the last of them to settle was rejected: nothing is in flight afterwards
C32_Witness ==
  /\ sc.kind = "race" /\ sc.emissions = 2
  /\ last.op = "settle" /\ ~last.v.ok
  /\ Len(sc.log) = 3 /\ tm.jobs = {}
  /\ heap[sc.f].val.error.tag = "Error"

\* C33: the Fetch of retry(n) shows {error, loading: false} only when no
\* attempt is in flight or scheduled for it, and while it shows a success
\* no further attempt is scheduled.
C33_ErrorOnlyFinal ==
  sc.kind = "retry" =>
    /\ (~heap[sc.r].val.loading /\ heap[sc.r].val.error /= NoError) =>
         /\ tm.pend = {}
         /\ \A j \in InFlight(tm.jobs, sc.r) : j.kind /= "attemptFetch"
    /\ (~heap[sc.r].val.loading /\ heap[sc.r].val.error = NoError) =>
         tm.pend = {}

\* ===================================================== SpecDelay
\* t1 = time(v0); delayed = t1.delay(DelayMs); observer 1 subscribes to
\* delayed; t1 is set from the top level while time passes.  sc.hist lists
\* the values t1 has held with the time each was set (v0 at the call),
\* sc.emissions counts t1's changes and sc.fired the timers that have run.
DelayMs == 2

\* delay(ms): delayed = time(baseEffect.value()), the one-shot timer and
\* the subscriber that sets a timer for every new value
delay(W, ms, id) ==
  LET delayed == time(W, W.heap[id].val)
      W1 == setTimeout(delayed.w, PushCurrentCb(delayed.id, id), ms)
  IN [w |-> subscribe(W1, id, DelaySub(ms, delayed.id)), id |-> delayed.id]

\* one run of a timer callback of delay
delayFired(W, cb) ==
  IF cb.kind = "pushcurrent" THEN set(W, cb.target, W.heap[cb.base].val)
  ELSE set(W, cb.target, cb.v)

InitDelay ==
  \E v0 \in Values :
    LET t1 == time(EmptyWorld, v0)
        delayed == delay(t1.w, DelayMs, t1.id)
        W1 == subscribe(delayed.w, delayed.id, ObsSub(1))
    IN /\ heap = W1.heap
       /\ obs = [W1.obs EXCEPT ![1].on = delayed.id]
       /\ tm = W1.tm
       /\ objs = NoObjs
       /\ sc = [kind |-> "delay", t1 |-> t1.id, delayed |-> delayed.id,
                hist |-> <<[t |-> 0, v |-> v0]>>, emissions |-> 0,
                fired |-> 0]
       /\ last = NoOp
       /\ ops = 0

\* t1._set(v) from the top level
DelayEmit(v) ==
  /\ ops < MaxOps
  /\ Commit(set(World, sc.t1, v))
  /\ last' = [op |-> "emit", id |-> sc.t1, v |-> v, old |-> heap[sc.t1].val,
              obsB |-> obs, valsB |-> Vals(heap), dirty |-> FALSE]
  /\ sc' = IF v = heap[sc.t1].val THEN sc
           ELSE [sc EXCEPT !.hist = Append(@, [t |-> tm.now, v |-> v]),
                           !.emissions = @ + 1]
  /\ ops' = ops + 1
  /\ UNCHANGED objs

\* the platform runs the timer that is due first
DelayFire ==
  /\ Due /= {}
  /\ LET t == FirstDue
     IN /\ Commit(delayFired([World EXCEPT !.tm.pend = @ \ {t}], t.cb))
        /\ last' = [op |-> "fire", id |-> t.cb.target, v |-> NoValue,
                    old |-> heap[t.cb.target].val,
                    obsB |-> obs, valsB |-> Vals(heap), dirty |-> FALSE]
  /\ sc' = [sc EXCEPT !.fired = @ + 1]
  /\ UNCHANGED <<objs, ops>>

NextDelay ==
  \/ \E v \in Values : DelayEmit(v)
  \/ DelayFire
  \/ Tick

SpecDelay == InitDelay /\ [][NextDelay]_vars

\* C34: delay cancels no timer: the call sets one and every change of the
\* source sets one more, and each of them runs; once the source has
\* changed and every timer has run, the delayed container holds the
\* source's value and its subscriber's latest call was made with it.
C34_DelayCatchesUp ==
  sc.kind = "delay" =>
    /\ tm.next - 1 = 1 + sc.emissions
    /\ Cardinality(tm.pend) + sc.fired = 1 + sc.emissions
    /\ (tm.pend = {} /\ sc.emissions >= 1) =>
         /\ heap[sc.delayed].val = heap[sc.t1].val
         /\ obs[1].n >= 1 /\ obs[1].got = heap[sc.t1].val

\* the source changed twice within DelayMs, to a value and back; all three
\* timers have run and the subscriber was called for both values
C34_Witness ==
  /\ sc.kind = "delay" /\ sc.emissions = 2 /\ tm.pend = {} /\ sc.fired = 3
  /\ sc.hist[3].v = sc.hist[1].v
  /\ sc.hist[3].t - sc.hist[2].t < DelayMs
  /\ obs[1].n = 2
  /\ heap[sc.delayed].val = sc.hist[1].v

\* C35: the delayed container takes a value no earlier than DelayMs after
\* the source took it: whenever a timer changes the delayed container, the
\* source held the new value DelayMs ago or before.
C35_DelayedByMs ==
  (sc.kind = "delay" /\ last.op = "fire"
     /\ heap[sc.delayed].val /= last.old) =>
    \E i \in DOMAIN sc.hist :
      /\ sc.hist[i].v = heap[sc.delayed].val
      /\ sc.hist[i].t + DelayMs <= tm.now

\* ===================================================== SpecApply
\* effectF = effect(f0) for a function f0; effectA = effect(a0);
\* result = apply(effectF, effectA); observer 1 subscribes to result; both
\* inputs are set from the top level.  sc.snapshot is f0(a0).
\* apply(effectF, effectA): effectF.bind(f => effectA.map(f))
apply(W, effectF, effectA) == bind(W, effectF, MapOver(effectA))

InitApply ==
  \E f0 \in FnNames, a0 \in Values :
    LET effectF == effect(EmptyWorld, f0)
        effectA == effect(effectF.w, a0)
        result == apply(effectA.w, effectF.id, effectA.id)
        W1 == subscribe(result.w, result.id, ObsSub(1))
    IN /\ heap = W1.heap
       /\ obs = [W1.obs EXCEPT ![1].on = result.id]
       /\ tm = W1.tm
       /\ objs = NoObjs
       /\ sc = [kind |-> "apply", effectF |-> effectF.id,
                effectA |-> effectA.id, result |-> result.id,
                snapshot |-> ApplyFn(f0, a0)]
       /\ last = NoOp
       /\ ops = 0

\* effectF._set(f) from the top level
ApplySetF(f) ==
  /\ ops < MaxOps
  /\ Commit(set(World, sc.effectF, f))
  /\ last' = [op |-> "setF", id |-> sc.effectF, v |-> f,
              old |-> heap[sc.effectF].val,
              obsB |-> obs, valsB |-> Vals(heap), dirty |-> FALSE]
  /\ ops' = ops + 1
  /\ UNCHANGED <<objs, sc>>

\* effectA._set(v) from the top level
ApplySetA(v) ==
  /\ ops < MaxOps
  /\ Commit(set(World, sc.effectA, v))
  /\ last' = [op |-> "setA", id |-> sc.effectA, v |-> v,
              old |-> heap[sc.effectA].val,
              obsB |-> obs, valsB |-> Vals(heap), dirty |-> FALSE]
  /\ ops' = ops + 1
  /\ UNCHANGED <<objs, sc>>

NextApply ==
  \/ \E f \in FnNames : ApplySetF(f)
  \/ \E v \in Values : ApplySetA(v)

SpecApply == InitApply /\ [][NextApply]_vars

\* C36: the result of apply holds effectF.value()(effectA.value()) as
\* computed at the call and keeps it whatever is set on effectF or on
\* effectA afterwards; its subscriber is never called.
C36_ApplySnapshot ==
  sc.kind = "apply" =>
    heap[sc.result].val = sc.snapshot /\ obs[1].n = 0

\* the rows the last send could take, by index
EnabledRows == {i \in DOMAIN sc.transitions : Enabled(sc.transitions[i])}

\* C37: a send that matches applies the first row in table order with
\* from = current, on = action and an absent or true guard: current
\* becomes that row's to and every subscriber is called once, also when to
\* = from; and can(action) is true exactly for the actions whose send
\* would fire now.
C37_FsmFirstRow ==
  sc.kind = "fsm" =>
    /\ (last.op = "send" /\ EnabledRows /= {}) =>
         LET i == CHOOSE i \in EnabledRows : \A j \in EnabledRows : i <= j
         IN /\ heap[sc.f].val = sc.transitions[i].to
            /\ \A k \in On(sc.f) : Calls(k) = 1 /\ obs[k].got = heap[sc.f].val
    /\ \A a \in Actions :
         can(World, sc.f, sc.transitions, a, sc.flag) <=>
           (\E i \in DOMAIN sc.transitions :
              /\ sc.transitions[i].from = heap[sc.f].val
              /\ sc.transitions[i].on = a
              /\ (sc.transitions[i].guard = "flag" => sc.flag))
    /\ \A a \in Actions :
         can(World, sc.f, sc.transitions, a, sc.flag) <=>
           fsmSend(World, sc.f, sc.transitions, a, sc.flag).obs[1].n
             = obs[1].n + 1

\* the first row's guard returned false, so the send took the second row,
\* a self-transition, and the subscriber was called
C37_Witness ==
  /\ sc.kind = "fsm" /\ last.op = "send"
  /\ EnabledRows = {2}
  /\ sc.transitions[1].from = last.old /\ sc.transitions[1].on = last.v
  /\ sc.transitions[1].to /= last.old
  /\ sc.transitions[2].to = last.old
  /\ heap[sc.f].val = last.old
  /\ Calls(1) = 1

\* ===================================================== SpecCombineAll
\* The scene of SpecCombine, with sends made through the combined machine
\* and sends made directly to m1 or m2.
\* m1.send(action) or m2.send(action) from the top level
DirectSend(action) ==
  /\ ops < MaxOps
  /\ Commit(IF action.type = "m1"
            THEN machineSend(World, sc.m1, sc.r1, action.action)
            ELSE machineSend(World, sc.m2, sc.r2, action.action))
  /\ last' = [op |-> "direct", id |-> sc.c, v |-> action, old |-> NoValue,
              obsB |-> obs, valsB |-> Vals(heap), dirty |-> FALSE]
  /\ sc' = [sc EXCEPT !.sent = Append(@, action)]
  /\ ops' = ops + 1
  /\ UNCHANGED objs

NextCombineAll ==
  \/ \E a \in CombinedActions : CombinedSend(a)
  \/ \E a \in CombinedActions : DirectSend(a)

SpecCombineAll == InitCombine /\ [][NextCombineAll]_vars

\* the last send changed the state of a sub-machine
SubChanged ==
  \/ heap[sc.m1].val /= last.valsB[sc.m1]
  \/ heap[sc.m2].val /= last.valsB[sc.m2]

\* C38: the subscriber of the combined machine is called once for every
\* send that changes the state of m1 or m2, sent through the combined
\* machine or directly, with {m1: m1.state, m2: m2.state}, and is not
\* called by a send that leaves the states unchanged.
C38_CombineNotifies ==
  (sc.kind = "combine" /\ last.op \in {"send", "direct"}) =>
    IF SubChanged
    THEN /\ Calls(1) = 1
         /\ obs[1].got = [m1 |-> heap[sc.m1].val, m2 |-> heap[sc.m2].val]
    ELSE Calls(1) = 0

\* a send made directly to m2 changed it, after an earlier change of m1:
\* the combined machine's subscriber was called again, with both states
C38_Witness ==
  /\ sc.kind = "combine"
  /\ last.op = "direct" /\ last.v.type = "m2"
  /\ heap[sc.m2].val /= last.valsB[sc.m2]
  /\ heap[sc.m1].val /= sc.s1
  /\ obs[1].n = 2 /\ Calls(1) = 1
  /\ obs[1].got.m2 = heap[sc.m2].val

\* ===================================================== persistPlugin
\* C39: with a store that works, after r = persistPlugin(key)(c) every
\* change of c's value is r's value and is the entry stored under
\* persist_<key>, whether or not an entry was stored when the plugin was
\* applied.
C39_PersistFollows ==
  (/\ sc.kind = "storage" /\ sc.user = "persistPlugin"
   /\ sc.r /= 0 /\ ~sc.threw
   /\ last.op = "set" /\ ~last.dirty /\ last.v /= last.old) =>
    /\ heap[sc.r].val = last.v
    /\ tm.store.has
    /\ JSONparse(tm.store.data) = last.v

\* ===================================================== SpecReentrant
\* c = signal(s0) with NumObs + 1 subscribers: the probes 1..NumObs in
\* order and, at position sc.pos among them, v => c._set(fn(v)) for a fn
\* whose repeated application settles.  c._set(v) is called from the top
\* level and probes unsubscribe.
SettlingFns == {"zero", "half"}

InitReentrant ==
  \E s0 \in Values, fn \in SettlingFns, pos \in 1..(NumObs + 1) :
    LET c == signal(EmptyWorld, s0)
        subs == [i \in 1..(NumObs + 1) |->
                   IF i < pos THEN ProbeSub(i, c.id, i)
                   ELSE IF i = pos THEN ResetSub(fn, c.id)
                   ELSE ProbeSub(i - 1, c.id, i - 1)]
    IN /\ heap = [c.w.heap EXCEPT ![c.id].subs = subs]
       /\ obs = [k \in Obs |-> [c.w.obs[k] EXCEPT !.on = c.id]]
       /\ tm = [c.w.tm EXCEPT !.cell = [k \in Obs |-> 0]]
       /\ objs = NoObjs
       /\ sc = [kind |-> "reentrant", c |-> c.id, fn |-> fn, pos |-> pos]
       /\ last = NoOp
       /\ ops = 0

\* c._set(v) from the top level
ReSet(v) ==
  /\ ops < MaxOps
  /\ Commit(set(World, sc.c, v))
  /\ last' = [op |-> "set", id |-> sc.c, v |-> v, old |-> heap[sc.c].val,
              obsB |-> obs, valsB |-> Vals(heap), dirty |-> FALSE]
  /\ ops' = ops + 1
  /\ UNCHANGED <<objs, sc>>

\* the closure that probe k's subscribe returned is invoked
ReUnsub(k) ==
  /\ ops < MaxOps
  /\ obs[k].on /= 0
  /\ LET W == unsubscribe(World, sc.c, ProbeSub(k, sc.c, k))
     IN /\ heap' = W.heap
        /\ obs' = [obs EXCEPT ![k].on = 0]
  /\ last' = [NoOp EXCEPT !.op = "unsub", !.id = sc.c, !.v = k]
  /\ ops' = ops + 1
  /\ UNCHANGED <<tm, objs, sc>>

NextReentrant ==
  \/ \E v \in Values : ReSet(v)
  \/ \E k \in Obs : ReUnsub(k)

SpecReentrant == InitReentrant /\ [][NextReentrant]_vars

\* C40: when a subscriber sets the container during a round, every value
\* handed to a subscriber is the container's value at that moment, and
\* after the outermost _set has returned the value every subscriber that
\* is still registered received last is value(); a _set that changes the
\* value reaches every one of them.
C40_ReentrantConsistent ==
  sc.kind = "reentrant" =>
    /\ \A k \in Obs : tm.cell[k] = 0
    /\ \A k \in Obs :
         (obs[k].on /= 0 /\ obs[k].n > 0) => obs[k].got = heap[sc.c].val
    /\ (last.op = "set" /\ last.v /= last.old) =>
         \A k \in Obs : obs[k].on /= 0 => Calls(k) >= 1

\* the subscriber between the two probes replaced the value that was set:
\* probe 1 was handed the superseded value and then the newest, probe 2
\* the newest value twice
C40_Witness ==
  /\ sc.kind = "reentrant" /\ sc.pos = 2
  /\ last.op = "set" /\ heap[sc.c].val /= last.v
  /\ obs[1].on /= 0 /\ obs[2].on /= 0
  /\ Calls(1) = 2 /\ Calls(2) = 2
  /\ obs[1].got = heap[sc.c].val /\ obs[2].got = heap[sc.c].val

====
